---- MODULE Spec2Model ----
(***************************************************************************)
(* starelements runtime: per-instance lifecycle of a custom element that   *)
(* is registered from a template (typescript runtime, current revision).   *)
(*                                                                         *)
(* Strings are sequences of one-character strings, so that splitting,      *)
(* number parsing and key concatenation are computed as the code computes  *)
(* them.  JavaScript values are tagged records.                            *)
(***************************************************************************)
EXTENDS Integers, Sequences, FiniteSets, TLC

(***************************************************************************)
(* Bounds of the model.                                                    *)
(***************************************************************************)
\* how often one element is attached to the document
MaxAttach == 2

\* the element instances of the page
Elements == {1, 2}

(***************************************************************************)
(* JavaScript values.                                                      *)
(***************************************************************************)
Null == [t |-> "null"]
Undefined == [t |-> "undefined"]
NaN == [t |-> "NaN"]
Num(n) == [t |-> "int", v |-> n]
Str(s) == [t |-> "string", v |-> s]
Bool(b) == [t |-> "boolean", v |-> b]
Float(i, f) == [t |-> "float", v |-> i, frac |-> f]
Thrown == [t |-> "throw"]
Module(u) == [t |-> "module", v |-> u]

\* JavaScript truthiness of a value (used by `!window[alias]`, `serverId || ...`)
Truthy(x) ==
    CASE x.t = "null" -> FALSE
      [] x.t = "undefined" -> FALSE
      [] x.t = "NaN" -> FALSE
      [] x.t = "int" -> x.v # 0
      [] x.t = "string" -> x.v # <<>>
      [] x.t = "boolean" -> x.v
      [] OTHER -> TRUE

(***************************************************************************)
(* Character-level helpers.                                                *)
(***************************************************************************)
Digits == <<"0", "1", "2", "3", "4", "5", "6", "7", "8", "9">>

IsDigit(c) == \E i \in 1..10 : Digits[i] = c

DigitVal(c) == (CHOOSE i \in 1..10 : Digits[i] = c) - 1

Tail1(s) == SubSeq(s, 2, Len(s))

StartsWith(s, p) == Len(s) >= Len(p) /\ SubSeq(s, 1, Len(p)) = p

\* String.prototype.split with a one-character separator
RECURSIVE SplitFrom(_, _, _)
SplitFrom(s, sep, cur) ==
    IF s = <<>> THEN <<cur>>
    ELSE IF s[1] = sep THEN <<cur>> \o SplitFrom(Tail1(s), sep, <<>>)
    ELSE SplitFrom(Tail1(s), sep, Append(cur, s[1]))

Split(s, sep) == SplitFrom(s, sep, <<>>)

\* leading decimal digits of s
RECURSIVE LeadingDigits(_)
LeadingDigits(s) ==
    IF s # <<>> /\ IsDigit(s[1]) THEN <<s[1]>> \o LeadingDigits(Tail1(s)) ELSE <<>>

RECURSIVE DigitsValue(_, _)
DigitsValue(ds, acc) ==
    IF ds = <<>> THEN acc ELSE DigitsValue(Tail1(ds), acc * 10 + DigitVal(ds[1]))

RECURSIVE SkipSpaces(_)
SkipSpaces(s) == IF s # <<>> /\ s[1] = " " THEN SkipSpaces(Tail1(s)) ELSE s

\* decimal rendering of a natural number (template literal `${n}`)
RECURSIVE ToDigits(_)
ToDigits(n) == IF n < 10 THEN <<Digits[n + 1]>> ELSE ToDigits(n \div 10) \o <<Digits[(n % 10) + 1]>>

LowerLetters == <<"a", "b", "c", "d", "e", "f", "g", "h", "i", "j", "k", "l", "m",
                  "n", "o", "p", "q", "r", "s", "t", "u", "v", "w", "x", "y", "z">>
UpperLetters == <<"A", "B", "C", "D", "E", "F", "G", "H", "I", "J", "K", "L", "M",
                  "N", "O", "P", "Q", "R", "S", "T", "U", "V", "W", "X", "Y", "Z">>

IsLower(c) == \E i \in 1..26 : LowerLetters[i] = c

ToUpperChar(c) == IF IsLower(c) THEN UpperLetters[CHOOSE i \in 1..26 : LowerLetters[i] = c] ELSE c

ToUpperCase(s) == [i \in 1..Len(s) |-> ToUpperChar(s[i])]

\* s.replace(/-([a-z])/g, (_, c) => c.toUpperCase())
RECURSIVE toCamelCase(_)
toCamelCase(s) ==
    IF s = <<>> THEN <<>>
    ELSE IF Len(s) >= 2 /\ s[1] = "-" /\ IsLower(s[2])
         THEN <<ToUpperChar(s[2])>> \o toCamelCase(SubSeq(s, 3, Len(s)))
         ELSE <<s[1]>> \o toCamelCase(Tail1(s))

\* (variant: the dashes of the tag name are kept)
KeepDashes(s) == s

\* name.replace(/-/g, "_")
ReplaceDashes(s) == [i \in 1..Len(s) |-> IF s[i] = "-" THEN "_" ELSE s[i]]

(***************************************************************************)
(* Codec parser.                                                           *)
(***************************************************************************)
\* parseInt(v, 10)
ParseIntMagnitude(s) ==
    IF LeadingDigits(s) = <<>> THEN NaN ELSE Num(DigitsValue(LeadingDigits(s), 0))

\* (variant: a leading sign is not accepted)
parseIntNoSign(v) == ParseIntMagnitude(SkipSpaces(v))

parseInt(v) ==
    LET s == SkipSpaces(v)
    IN  IF s # <<>> /\ s[1] = "-"
        THEN LET m == ParseIntMagnitude(Tail1(s))
             IN  IF m.t = "int" THEN Num(0 - m.v) ELSE m
        ELSE IF s # <<>> /\ s[1] = "+" THEN ParseIntMagnitude(Tail1(s))
        ELSE ParseIntMagnitude(s)

\* parseFloat(v): sign, digits, optional fraction
parseFloat(v) ==
    LET s == SkipSpaces(v)
        neg == s # <<>> /\ s[1] = "-"
        body == IF s # <<>> /\ (s[1] = "-" \/ s[1] = "+") THEN Tail1(s) ELSE s
        ip == LeadingDigits(body)
        rest == SubSeq(body, Len(ip) + 1, Len(body))
        fp == IF rest # <<>> /\ rest[1] = "." THEN LeadingDigits(Tail1(rest)) ELSE <<>>
        iv == DigitsValue(ip, 0)
    IN  IF ip = <<>> /\ fp = <<>> THEN NaN
        ELSE IF DigitsValue(fp, 0) = 0 THEN Num(IF neg THEN 0 - iv ELSE iv)
        ELSE Float(IF neg THEN 0 - iv ELSE iv, fp)

S_true == <<"t", "r", "u", "e">>
S_false == <<"f", "a", "l", "s", "e">>
S_null == <<"n", "u", "l", "l">>

\* JSON.parse on the literals the model uses: numbers, true, false, null,
\* double-quoted strings without escapes; anything else is a SyntaxError
JSONparse(v) ==
    IF v = S_true THEN Bool(TRUE)
    ELSE IF v = S_false THEN Bool(FALSE)
    ELSE IF v = S_null THEN Null
    ELSE IF Len(v) >= 2 /\ v[1] = "\"" /\ v[Len(v)] = "\""
              /\ \A i \in 2..(Len(v) - 1) : v[i] # "\""
         THEN Str(SubSeq(v, 2, Len(v) - 1))
    ELSE IF v # <<>> /\ LeadingDigits(v) = v THEN Num(DigitsValue(v, 0))
    ELSE IF Len(v) >= 2 /\ v[1] = "-" /\ LeadingDigits(Tail1(v)) = Tail1(v)
         THEN Num(0 - DigitsValue(Tail1(v), 0))
    ELSE Thrown

S_string == <<"s", "t", "r", "i", "n", "g">>
S_int == <<"i", "n", "t">>
S_float == <<"f", "l", "o", "a", "t">>
S_boolean == <<"b", "o", "o", "l", "e", "a", "n">>
S_json == <<"j", "s", "o", "n">>

TypeNames == {S_string, S_int, S_float, S_boolean, S_json}

S_toString == <<"t", "o", "S", "t", "r", "i", "n", "g">>
S_constructor == <<"c", "o", "n", "s", "t", "r", "u", "c", "t", "o", "r">>
S_valueOf == <<"v", "a", "l", "u", "e", "O", "f">>
S_objectUndefined ==
    <<"[", "o", "b", "j", "e", "c", "t", " ", "U", "n", "d", "e", "f", "i", "n", "e", "d", "]">>

\* names that the object literal PARSERS inherits from Object.prototype
InheritedNames == {S_toString, S_constructor, S_valueOf}

\* the wrapper object that Object(v) makes of a string
Boxed(v) == [t |-> "object", v |-> v]

\* `part in PARSERS`: the in operator finds own and inherited properties
InPARSERS(part) == part \in TypeNames \cup InheritedNames

\* PARSERS[type](v) for a string v, called as a plain function (this is
\* undefined): the inherited toString answers for undefined, the inherited
\* constructor is Object, the inherited valueOf throws a TypeError
PARSERS(type, v) ==
    CASE type = S_string -> Str(v)
      [] type = S_toString -> Str(S_objectUndefined)
      [] type = S_constructor -> Boxed(v)
      [] type = S_valueOf -> Thrown
      [] type = S_int -> parseInt(v)
      [] type = S_float -> parseFloat(v)
      [] type = S_boolean -> Bool(v = S_true \/ v = <<>>)
      [] type = S_json -> JSONparse(v)

\* the for loop of parseCodec over the split parts: [type, defaultStr]
RECURSIVE CodecScan(_, _, _)
CodecScan(parts, type, defaultStr) ==
    IF parts = <<>> THEN [type |-> type, defaultStr |-> defaultStr]
    ELSE IF InPARSERS(parts[1]) THEN CodecScan(Tail1(parts), parts[1], defaultStr)
    ELSE IF StartsWith(parts[1], <<"=">>) THEN CodecScan(Tail1(parts), type, Str(Tail1(parts[1])))
    ELSE CodecScan(Tail1(parts), type, defaultStr)

\* parseCodec(codecStr): the codec as [type, default]; parse is PARSERS[type]
parseCodec(codecStr) ==
    LET sc == CodecScan(Split(codecStr, "|"), S_string, Null)
    IN  [type |-> sc.type,
         default |-> IF sc.defaultStr.t # "null" THEN PARSERS(sc.type, sc.defaultStr.v) ELSE Null]

(***************************************************************************)
(* The reactive store (external): a flat key space, patched by mergePatch  *)
(* and read by getPath.                                                    *)
(***************************************************************************)
\* Object.fromEntries(entries): a later entry overrides an earlier one
FromEntries(entries) ==
    [k \in {entries[i][1] : i \in 1..Len(entries)} |->
        entries[CHOOSE i \in 1..Len(entries) :
                    /\ entries[i][1] = k
                    /\ \A j \in (i + 1)..Len(entries) : entries[j][1] # k][2]]

\* mergePatch(patch): JSON Merge Patch, a null value deletes the key
mergePatch(st, patch) ==
    LET del == {k \in DOMAIN patch : patch[k].t = "null"}
        put == DOMAIN patch \ del
    IN  [k \in (DOMAIN st \cup put) \ del |-> IF k \in put THEN patch[k] ELSE st[k]]

\* getPath(key)
getPath(st, key) == IF key \in DOMAIN st THEN st[key] ELSE Undefined

(***************************************************************************)
(* The component definition registered from the template (one tag).        *)
(***************************************************************************)
S_count == <<"c", "o", "u", "n", "t">>
S_max_level == <<"m", "a", "x", "-", "l", "e", "v", "e", "l">>
S_maxLevel == <<"m", "a", "x", "L", "e", "v", "e", "l">>
S_chart == <<"c", "h", "a", "r", "t">>
S_plotly == <<"p", "l", "o", "t", "l", "y">>
S_star == <<"_", "s", "t", "a", "r", "_">>
S_id == <<"_", "i", "d">>

\* tag name of the component: my-counter
name == <<"m", "y", "-", "c", "o", "u", "n", "t", "e", "r">>

\* data-signal:count="int|=0"  data-signal:max-level="int|min:0|max:10"
SignalDecls ==
    << <<S_count, <<"i", "n", "t", "|", "=", "0">> >>,
       <<S_max_level, <<"i", "n", "t", "|", "m", "i", "n", ":", "0", "|", "m", "a", "x", ":", "1", "0">> >> >>

\* extractPrefixedAttrs(template, "data-signal:", parseCodec)
signals == [i \in 1..Len(SignalDecls) |-> <<SignalDecls[i][1], parseCodec(SignalDecls[i][2])>>]

SignalAttrs == {signals[i][1] : i \in 1..Len(signals)}

HasSignal(attr) == attr \in SignalAttrs

SignalDef(attr) == signals[CHOOSE i \in 1..Len(signals) : signals[i][1] = attr][2]

\* extractPrefixedAttrs(template, "data-import:"): aliases in declaration order
imports == <<S_chart>>

\* extractPrefixedAttrs(template, "data-script:"): aliases in declaration order
scripts == <<S_plotly>>

(***************************************************************************)
(* Namespace allocation and qualified keys.                                *)
(***************************************************************************)
\* (variant: the counter value is left out of the generated namespace)
GenNamespaceNoCounter(n) == S_star \o ReplaceDashes(name) \o S_id

\* `_star_${name.replace(/-/g, "_")}_id${instanceCounter++}` for counter value n
GenNamespace(n) == S_star \o ReplaceDashes(name) \o S_id \o ToDigits(n)

\* `${this._namespace}_${toCamelCase(attr)}`
Key(ns, sig) == ns \o <<"_">> \o sig

\* the qualified keys of the declared signals under namespace ns
DeclaredKeys(ns) == {Key(ns, toCamelCase(a)) : a \in SignalAttrs}

(***************************************************************************)
(* State.                                                                  *)
(***************************************************************************)
VARIABLES
    instanceCounter,  \* process-wide namespace counter
    globalWindow,     \* globals of the page: name -> value (import cache, UMD globals)
    store,            \* the signal store: qualified key -> value
    constructed,      \* e -> the constructor has run
    attrs,            \* e -> attribute name -> Str(value) or Null (absent)
    attached,         \* e -> this.isConnected
    _namespace,       \* e -> this._namespace
    _hydrating,       \* e -> this._hydrating
    _cleanups,        \* e -> this._cleanups, a sequence of cleanup actions
    _imports,         \* e -> this._imports: alias -> value
    _connected,       \* e -> this._connected
    ready,            \* e -> the data-star-ready attribute is present
    content,          \* e -> number of template copies attached to the element
    dataSignals,      \* e -> the signalData written to the data-signals attribute
    pending,          \* e -> the suspended connectedCallback invocations
    attachCount,      \* e -> number of attachments so far
    phase,            \* e -> lifecycle state of the instance
    setupRuns,        \* e -> number of setup executions
    rescans,          \* e -> number of datastar:scan events dispatched
    registered,       \* e -> number of cleanup actions registered so far
    ran,              \* e -> the cleanup actions executed, in execution order
    effects,          \* e -> ids of the effects that are still active
    aborted,          \* e -> number of connectedCallback invocations that returned at the guard
    mountNs,          \* e -> the namespaces under which mounts completed, in order
    earlyAttrWrite,   \* e -> attributeChangedCallback has patched the store outside the connected state
    setupFailed,      \* e -> the last execution of the setup script threw (logged by _runSetup)
    mountTrace,       \* e -> the steps the last invocation that passed the guard carried out, in order
    batchDepth,       \* the store: number of batches begun and not ended
    unbatchedWrite,   \* e -> a mount of e has written to the store outside a batch
    proxyLog,         \* e -> the get and set traps of sp called by the last setup execution
    templates,        \* the template elements of the document, in document order
    defined,          \* customElements: the tag names that are defined
    initState,        \* initStarElements: "loading" (not run), "done" (returned), "threw"
    staticRuns,       \* tag name -> number of executions of the component's static script
    signalCodecs,     \* tag name -> the codecs of the declared signals of the defined component
    attrValue,        \* the value of an attribute in the template content
    rewritten         \* e -> that value in the content attached to e (Null: none)

vars == <<instanceCounter, globalWindow, store, constructed, attrs, attached,
          _namespace, _hydrating, _cleanups, _imports, _connected, ready, content,
          dataSignals, pending, attachCount, phase, setupRuns, rescans, registered,
          ran, effects, aborted, mountNs, earlyAttrWrite, setupFailed, mountTrace,
          batchDepth, unbatchedWrite, proxyLog, templates, defined, initState, staticRuns, signalCodecs, attrValue, rewritten>>

\* the document and the registry of custom elements
docVars == <<templates, defined, initState, staticRuns, signalCodecs>>

\* what the console and an observer of the mount and of the store's batches record
logVars == <<setupFailed, mountTrace, batchDepth, unbatchedWrite, proxyLog>>

EmptyMap == [k \in {} |-> Null]

Lookup(f, k) == IF k \in DOMAIN f THEN f[k] ELSE Undefined

Put(f, k, v) == [x \in DOMAIN f \cup {k} |-> IF x = k THEN v ELSE f[x]]

S_data_star_id == <<"d", "a", "t", "a", "-", "s", "t", "a", "r", "-", "i", "d">>

\* attribute values the page sets on an element, per observed attribute
AttrInputs(attr) ==
    IF attr = S_count THEN {Null, Str(<<"5">>)}
    ELSE {Null, Str(<<"1", "5">>), Str(<<"-", "5">>)}

\* the hydration id the server renders for element e (distinct per element)
ServerId(e) == Str(<<"s", "r", "v">> \o ToDigits(e))

NoAttrs == [a \in SignalAttrs \cup {S_data_star_id} |-> Null]

\* the instances before any element is created, with the globals win defined
InitInstances(win) ==
    /\ instanceCounter = 0
    /\ globalWindow = win
    /\ store = EmptyMap
    /\ constructed = [e \in Elements |-> FALSE]
    /\ attrs = [e \in Elements |-> NoAttrs]
    /\ attached = [e \in Elements |-> FALSE]
    /\ _namespace = [e \in Elements |-> <<>>]
    /\ _hydrating = [e \in Elements |-> FALSE]
    /\ _cleanups = [e \in Elements |-> <<>>]
    /\ _imports = [e \in Elements |-> EmptyMap]
    /\ _connected = [e \in Elements |-> FALSE]
    /\ ready = [e \in Elements |-> FALSE]
    /\ content = [e \in Elements |-> 0]
    /\ dataSignals = [e \in Elements |-> EmptyMap]
    /\ pending = [e \in Elements |-> <<>>]
    /\ attachCount = [e \in Elements |-> 0]
    /\ phase = [e \in Elements |-> "none"]
    /\ setupRuns = [e \in Elements |-> 0]
    /\ rescans = [e \in Elements |-> 0]
    /\ registered = [e \in Elements |-> 0]
    /\ ran = [e \in Elements |-> <<>>]
    /\ effects = [e \in Elements |-> {}]
    /\ aborted = [e \in Elements |-> 0]
    /\ mountNs = [e \in Elements |-> <<>>]
    /\ earlyAttrWrite = [e \in Elements |-> FALSE]
    /\ setupFailed = [e \in Elements |-> FALSE]
    /\ mountTrace = [e \in Elements |-> <<>>]
    /\ batchDepth = 0
    /\ unbatchedWrite = [e \in Elements |-> FALSE]
    /\ proxyLog = [e \in Elements |-> <<>>]
    /\ rewritten = [e \in Elements |-> Null]

\* <template data-star:my-counter data-signal:count=... data-signal:max-level=...>
TheTemplate == [star |-> TRUE, tag |-> name, signals |-> SignalDecls, static |-> "none"]

\* the document after initStarElements has registered its one template
InitRegistered ==
    /\ templates = <<TheTemplate>>
    /\ defined = {name}
    /\ initState = "done"
    /\ staticRuns = EmptyMap
    /\ signalCodecs = [t \in {name} |-> signals]

\* an attribute value of the template content: data-text="$c$$c"
TheAttrValue == <<"$", "c", "$", "$", "c">>

\* the page before any element is created, with the globals win defined
InitWith(win) ==
    /\ InitInstances(win)
    /\ InitRegistered
    /\ attrValue = TheAttrValue

Init == InitWith(EmptyMap)

(***************************************************************************)
(* constructor                                                             *)
(***************************************************************************)
\* (variant: the attribute value is taken whenever the attribute is present)
NamespaceForPresent(serverId, counter) ==
    IF serverId.t # "null" THEN serverId.v ELSE GenNamespace(counter)

\* this._namespace = serverId || `_star_..._id${instanceCounter++}`
NamespaceFor(serverId, counter) ==
    IF Truthy(serverId) THEN serverId.v ELSE GenNamespace(counter)

\* (variant: the counter is read but never incremented)
CounterAfterNoIncrement(serverId, counter) == counter

\* instanceCounter after the constructor: ++ is evaluated only when serverId is falsy
CounterAfter(serverId, counter) ==
    IF Truthy(serverId) THEN counter ELSE counter + 1

\* an instance that never takes itself for server-rendered
HydratingForNever(serverId) == FALSE

\* this._hydrating = !!serverId
HydratingFor(serverId) == Truthy(serverId)

\* new StarElement() for an element that carries data-star-id = sid (Null: no
\* attribute); the class exists once customElements.define(name, StarElement) has run
Constructor(e, sid) ==
    /\ name \in defined
    /\ ~constructed[e]
    /\ constructed' = [constructed EXCEPT ![e] = TRUE]
    /\ attrs' = [attrs EXCEPT ![e][S_data_star_id] = sid]
    /\ _namespace' = [_namespace EXCEPT ![e] = NamespaceFor(sid, instanceCounter)]
    /\ instanceCounter' = CounterAfter(sid, instanceCounter)
    /\ _hydrating' = [_hydrating EXCEPT ![e] = HydratingFor(sid)]
    /\ _cleanups' = [_cleanups EXCEPT ![e] = <<>>]
    /\ _imports' = [_imports EXCEPT ![e] = EmptyMap]
    /\ _connected' = [_connected EXCEPT ![e] = FALSE]
    /\ phase' = [phase EXCEPT ![e] = "constructed"]
    /\ UNCHANGED <<globalWindow, store, attached, ready, content, dataSignals, pending,
                   attachCount, setupRuns, rescans, registered, ran, effects, aborted,
                   mountNs, earlyAttrWrite>>
    /\ UNCHANGED <<docVars, logVars, attrValue, rewritten>>

\* the page creates element e, with or without the hydration id of e
Construct(e) == \E sid \in {Null, ServerId(e)} : Constructor(e, sid)

\* hydration ids as any markup may carry them: the same id on two elements
AnyServerIds == {Null, ServerId(1)}

\* the page creates element e from markup with an arbitrary hydration id
ConstructAny(e) == \E sid \in AnyServerIds : Constructor(e, sid)

(***************************************************************************)
(* _loadImports: runs synchronously up to the next await.                  *)
(***************************************************************************)
\* alias[0].toUpperCase() + alias.slice(1)
Pascal(alias) == IF alias = <<>> THEN <<>> ELSE <<ToUpperChar(alias[1])>> \o Tail1(alias)

\* (variant: only the global under the alias itself is looked up)
findGlobalExact(win, alias) == Lookup(win, alias)

\* findGlobal(alias): exact, capitalized or all-caps global, first truthy one
findGlobal(win, alias) ==
    IF Truthy(Lookup(win, alias)) THEN Lookup(win, alias)
    ELSE IF Truthy(Lookup(win, Pascal(alias))) THEN Lookup(win, Pascal(alias))
    ELSE Lookup(win, ToUpperCase(alias))

\* (variant: the loads are started but not awaited)
LoadFromNoWait(stage, i, imps, win) == [pc |-> [stage |-> "ret", i |-> 0], imps |-> imps]

\* the two for loops of _loadImports from position (stage, i) to the next
\* suspension point: "esm" i awaits import(url) of imports[i], "umd" i awaits the
\* load/error event of the script injected for scripts[i], "ret" awaits the
\* promise of _loadImports itself
RECURSIVE LoadFrom(_, _, _, _)
LoadFrom(stage, i, imps, win) ==
    IF stage = "esm"
    THEN IF i > Len(imports) THEN LoadFrom("umd", 1, imps, win)
         ELSE IF ~Truthy(Lookup(win, imports[i]))
              THEN [pc |-> [stage |-> "esm", i |-> i], imps |-> imps]
              ELSE LoadFrom("esm", i + 1, Put(imps, imports[i], Lookup(win, imports[i])), win)
    ELSE IF i > Len(scripts) THEN [pc |-> [stage |-> "ret", i |-> 0], imps |-> imps]
         ELSE IF ~Truthy(findGlobal(win, scripts[i]))
              THEN [pc |-> [stage |-> "umd", i |-> i], imps |-> imps]
              ELSE LoadFrom("umd", i + 1, Put(imps, scripts[i], findGlobal(win, scripts[i])), win)

RemoveAt(seq, i) == SubSeq(seq, 1, i - 1) \o SubSeq(seq, i + 1, Len(seq))

\* the page attaches element e: isConnected becomes true and connectedCallback
\* runs up to its first suspension point
Attach(e) ==
    /\ constructed[e]
    /\ ~attached[e]
    /\ attachCount[e] < MaxAttach
    /\ LET r == LoadFrom("esm", 1, _imports[e], globalWindow)
       IN  /\ pending' = [pending EXCEPT ![e] = Append(@, r.pc)]
           /\ _imports' = [_imports EXCEPT ![e] = r.imps]
    /\ attached' = [attached EXCEPT ![e] = TRUE]
    /\ attachCount' = [attachCount EXCEPT ![e] = @ + 1]
    /\ phase' = [phase EXCEPT ![e] = "connecting"]
    /\ UNCHANGED <<instanceCounter, globalWindow, store, constructed, attrs, _namespace,
                   _hydrating, _cleanups, _connected, ready, content, dataSignals,
                   setupRuns, rescans, registered, ran, effects, aborted, mountNs, earlyAttrWrite>>
    /\ UNCHANGED <<docVars, logVars, attrValue, rewritten>>

\* (variant: a failed load rejects the promise of _loadImports)
LoaderStopsOnFailure(ok) == ok

\* the catch block around `await import(url)` and the .catch on the promise of
\* the script log the failure: the loop goes on whether the load succeeded
\* (ok) or not
LoaderContinues(ok) == TRUE

\* (variant: the result of the await is assigned whether the import succeeded or not)
CacheAfterImportAssignsFailure(win, alias, ok) ==
    Put(win, alias, IF ok THEN Module(alias) ELSE Undefined)

\* `try { globalWindow[alias] = await import(url); } catch`: the assignment
\* takes place only when the import succeeded (ok)
CacheAfterImport(win, alias, ok) ==
    IF ok THEN Put(win, alias, Module(alias)) ELSE win

\* `globalWindow[alias] = await import(url)` settles for the k-th pending
\* invocation of e: ok -> the module is cached, ~ok -> the catch block logs
ImportSettles(e, k, ok) ==
    /\ k \in 1..Len(pending[e])
    /\ pending[e][k].stage = "esm"
    /\ LET alias == imports[pending[e][k].i]
           win == CacheAfterImport(globalWindow, alias, ok)
           r == LoadFrom("esm", pending[e][k].i + 1, Put(_imports[e], alias, Lookup(win, alias)), win)
       IN  /\ globalWindow' = win
           /\ IF LoaderContinues(ok)
              THEN /\ pending' = [pending EXCEPT ![e][k] = r.pc]
                   /\ _imports' = [_imports EXCEPT ![e] = r.imps]
              ELSE /\ pending' = [pending EXCEPT ![e] = RemoveAt(@, k)]
                   /\ UNCHANGED _imports
    /\ UNCHANGED <<instanceCounter, store, constructed, attrs, attached, _namespace,
                   _hydrating, _cleanups, _connected, ready, content, dataSignals,
                   attachCount, phase, setupRuns, rescans, registered, ran, effects,
                   aborted, mountNs, earlyAttrWrite>>
    /\ UNCHANGED <<docVars, logVars, attrValue, rewritten>>

\* what the injected script does: defines the capitalized global and fires
\* load, fires load without defining a global, or fires error
ScriptOutcomes == {"pascal", "none", "error"}

\* the same with the libraries that define the global under the alias itself
\* or in capitals
AllScriptOutcomes == ScriptOutcomes \cup {"exact", "upper"}

\* the globals once the script injected for alias has been evaluated
GlobalsAfterScript(win, alias, outcome) ==
    CASE outcome = "pascal" -> Put(win, Pascal(alias), Module(Pascal(alias)))
      [] outcome = "exact" -> Put(win, alias, Module(alias))
      [] outcome = "upper" -> Put(win, ToUpperCase(alias), Module(ToUpperCase(alias)))
      [] OTHER -> win

\* the script element injected for the k-th pending invocation of e fires load or error
ScriptSettles(e, k, outcome) ==
    /\ k \in 1..Len(pending[e])
    /\ pending[e][k].stage = "umd"
    /\ LET alias == scripts[pending[e][k].i]
           win == GlobalsAfterScript(globalWindow, alias, outcome)
           r == LoadFrom("umd", pending[e][k].i + 1, Put(_imports[e], alias, findGlobal(win, alias)), win)
       IN  /\ globalWindow' = win
           /\ IF LoaderContinues(outcome # "error")
              THEN /\ pending' = [pending EXCEPT ![e][k] = r.pc]
                   /\ _imports' = [_imports EXCEPT ![e] = r.imps]
              ELSE /\ pending' = [pending EXCEPT ![e] = RemoveAt(@, k)]
                   /\ UNCHANGED _imports
    /\ UNCHANGED <<instanceCounter, store, constructed, attrs, attached, _namespace,
                   _hydrating, _cleanups, _connected, ready, content, dataSignals,
                   attachCount, phase, setupRuns, rescans, registered, ran, effects,
                   aborted, mountNs, earlyAttrWrite>>
    /\ UNCHANGED <<docVars, logVars, attrValue, rewritten>>

(***************************************************************************)
(* attributeChangedCallback                                                *)
(***************************************************************************)
\* (variant: attributeChangedCallback without the connected guard)
PassesAlways(conn) == TRUE

\* the guard `!this._connected` of attributeChangedCallback lets the call through
PassesConnectedGuard(conn) == conn

\* the patch attributeChangedCallback(attr, oldVal, newVal) hands to mergePatch
\* (EmptyMap: it returns without a patch)
attributeChangedCallback(ns, conn, attr, oldVal, newVal) ==
    IF oldVal = newVal \/ ~PassesConnectedGuard(conn) THEN EmptyMap
    ELSE LET parsed == IF newVal.t # "null" /\ HasSignal(attr)
                       THEN PARSERS(SignalDef(attr).type, newVal.v)
                       ELSE newVal
         IN  IF parsed.t = "throw" THEN EmptyMap
             ELSE [k \in {Key(ns, toCamelCase(attr))} |-> parsed]

\* the page sets (or removes, val = Null) an observed attribute of element e
SetAttribute(e, attr, val) ==
    /\ constructed[e]
    /\ LET patch == attributeChangedCallback(_namespace[e], _connected[e], attr, attrs[e][attr], val)
       IN  /\ store' = mergePatch(store, patch)
           /\ earlyAttrWrite' = [earlyAttrWrite EXCEPT ![e] =
                                    @ \/ (patch # EmptyMap /\ phase[e] # "connected")]
    /\ attrs' = [attrs EXCEPT ![e][attr] = val]
    /\ UNCHANGED <<instanceCounter, globalWindow, constructed, attached, _namespace,
                   _hydrating, _cleanups, _imports, _connected, ready, content, dataSignals,
                   pending, attachCount, phase, setupRuns, rescans, registered, ran,
                   effects, aborted, mountNs>>
    /\ UNCHANGED <<docVars, logVars, attrValue, rewritten>>

(***************************************************************************)
(* _runSetup: the setup script is code of the component author; the model  *)
(* lets it use the facilities it is handed.                                *)
(***************************************************************************)
SetupOp(op, throws, attr, val) == [op |-> op, throws |-> throws, attr |-> attr, val |-> val]

OnCleanupOp(throws) == SetupOp("onCleanup", throws, <<>>, Null)
EffectOp == SetupOp("effect", FALSE, <<>>, Null)
\* the script calls datastar.effect(fn)
DatastarEffectOp == SetupOp("datastarEffect", FALSE, <<>>, Null)
ThrowOp == SetupOp("throw", TRUE, <<>>, Null)
SetAttributeOp(attr, val) == SetupOp("setAttribute", FALSE, attr, val)

\* the script reads the property prop of sp / assigns val to it
ProxyGetOp(prop) == SetupOp("proxyGet", FALSE, prop, Null)
ProxySetOp(prop, val) == SetupOp("proxySet", FALSE, prop, val)
\* the script calls datastar.mergePatch({ [key]: val })
MergePatchOp(key, val) == SetupOp("mergePatch", FALSE, key, val)

S_sigils == <<"$", "$">>

\* typeof prop === "string" && prop.startsWith("$$")
IsSignalProp(prop) == StartsWith(prop, S_sigils)

\* (variant: the store key without the namespace)
ProxyKeyUnqualified(ns, prop) == SubSeq(prop, 3, Len(prop))

\* `${namespace}_${prop.slice(2)}`
ProxyKey(ns, prop) == ns \o <<"_">> \o SubSeq(prop, 3, Len(prop))

\* the get trap of sp: the value it returns
ProxyGet(st, ns, prop) ==
    IF IsSignalProp(prop) THEN getPath(st.store, ProxyKey(ns, prop))
    ELSE Lookup(st.target, prop)

\* the set trap of sp
ProxySet(st, ns, prop, val) ==
    IF IsSignalProp(prop)
    THEN [st EXCEPT !.store = mergePatch(@, FromEntries(<< <<ProxyKey(ns, prop), val>> >>))]
    ELSE [st EXCEPT !.target = Put(@, prop, val)]

\* the behaviours of the setup script
SetupBehaviours ==
    { <<OnCleanupOp(FALSE)>>,
      <<OnCleanupOp(TRUE), EffectOp>>,
      <<OnCleanupOp(FALSE), ThrowOp>>,
      <<SetAttributeOp(S_count, Str(<<"5">>))>> }

\* (variant: the effect is created and its dispose function is dropped)
effectUntracked(cleanups, id) == cleanups

\* trackedEffect: const dispose = effect(fn); this._cleanups.push(dispose):
\* the cleanup list with the dispose function of the effect id
trackedEffect(cleanups, id) ==
    Append(cleanups, [id |-> id, throws |-> FALSE, kind |-> "effect"])

\* one statement of the setup script, on the state st the script sees
SetupStep(o, st, ns, conn, ph) ==
    CASE o.op = "onCleanup" ->
            \* (fn) => this._cleanups.push(fn)
            [st EXCEPT !.cleanups = Append(@, [id |-> st.registered + 1, throws |-> o.throws, kind |-> "onCleanup"]),
                       !.registered = @ + 1]
      [] o.op \in {"effect", "datastarEffect"} ->
            \* both names are bound to trackedEffect
            [st EXCEPT !.cleanups = trackedEffect(@, st.registered + 1),
                       !.registered = @ + 1,
                       !.effects = @ \cup {st.registered + 1}]
      [] o.op = "setAttribute" ->
            \* el.setAttribute(...) calls attributeChangedCallback synchronously
            LET patch == attributeChangedCallback(ns, conn, o.attr, st.attrs[o.attr], o.val)
            IN  [st EXCEPT !.store = mergePatch(@, patch),
                           !.attrs = [@ EXCEPT ![o.attr] = o.val],
                           !.early = @ \/ (patch # EmptyMap /\ ph # "connected")]
      [] o.op = "mergePatch" ->
            \* the mergePatch of the store, handed to the script as it is
            [st EXCEPT !.store = mergePatch(@, FromEntries(<< <<o.attr, o.val>> >>))]
      [] o.op = "proxyGet" ->
            [st EXCEPT !.proxyLog = Append(@, [op |-> "get", prop |-> o.attr,
                                                val |-> ProxyGet(st, ns, o.attr)])]
      [] o.op = "proxySet" ->
            [ProxySet(st, ns, o.attr, o.val) EXCEPT
                !.proxyLog = Append(@, [op |-> "set", prop |-> o.attr, val |-> o.val])]
      [] OTHER -> st

\* the statements of the script in order; a throw ends the script (the catch
\* block of _runSetup logs it)
RECURSIVE RunSetupOps(_, _, _, _, _)
RunSetupOps(ops, st, ns, conn, ph) ==
    IF ops = <<>> \/ ops[1].op = "throw" THEN st
    ELSE RunSetupOps(Tail1(ops), SetupStep(ops[1], st, ns, conn, ph), ns, conn, ph)

(***************************************************************************)
(* Rewriting of signal references in attribute values of the content.      *)
(***************************************************************************)
IsUpper(c) == \E i \in 1..26 : UpperLetters[i] = c

\* [a-z_] under the i flag
IsIdentStart(c) == IsLower(c) \/ IsUpper(c) \/ c = "_"

\* [a-z0-9_] under the i flag
IsIdentChar(c) == IsIdentStart(c) \/ IsDigit(c)

\* the longest prefix of s that matches [a-z0-9_]*
RECURSIVE LeadingIdent(_)
LeadingIdent(s) ==
    IF s # <<>> /\ IsIdentChar(s[1]) THEN <<s[1]>> \o LeadingIdent(Tail1(s)) ELSE <<>>

\* (variant: the single-sigil pattern /\$([a-z_][a-z0-9_]*)/gi)
RECURSIVE _namespaceSignalRefsSingleSigil(_, _)
_namespaceSignalRefsSingleSigil(ns, text) ==
    IF text = <<>> THEN <<>>
    ELSE IF Len(text) >= 2 /\ text[1] = "$" /\ IsIdentStart(text[2])
         THEN LET sig == LeadingIdent(Tail1(text))
              IN  <<"$">> \o ns \o <<"_">> \o sig
                    \o _namespaceSignalRefsSingleSigil(ns, SubSeq(text, Len(sig) + 2, Len(text)))
         ELSE <<text[1]>> \o _namespaceSignalRefsSingleSigil(ns, Tail1(text))

\* text.replace(/\$\$([a-z_][a-z0-9_]*)/gi, (_, sig) => `$${this._namespace}_${sig}`):
\* the matches are found from left to right, the scan goes on after each match
RECURSIVE _namespaceSignalRefs(_, _)
_namespaceSignalRefs(ns, text) ==
    IF text = <<>> THEN <<>>
    ELSE IF Len(text) >= 3 /\ text[1] = "$" /\ text[2] = "$" /\ IsIdentStart(text[3])
         THEN LET sig == LeadingIdent(SubSeq(text, 3, Len(text)))
              IN  <<"$">> \o ns \o <<"_">> \o sig
                    \o _namespaceSignalRefs(ns, SubSeq(text, Len(sig) + 3, Len(text)))
         ELSE <<text[1]>> \o _namespaceSignalRefs(ns, Tail1(text))

\* attr.value.includes("$$")
IncludesLocalSigil(value) ==
    \E i \in 1..(Len(value) - 1) : value[i] = "$" /\ value[i + 1] = "$"

\* _rewriteSignals on an attribute that is neither data-ref nor data-computed:*
_rewriteSignals(ns, value) ==
    IF IncludesLocalSigil(value) THEN _namespaceSignalRefs(ns, value) ELSE value

(***************************************************************************)
(* connectedCallback after `await this._loadImports()`                     *)
(***************************************************************************)
\* (variant: no attachment check after the await)
ProceedsAlways(isConnected) == TRUE

\* `if (!this.isConnected) return;` lets the invocation go on
Proceeds(isConnected) == isConnected

\* (variant: the content is cloned and attached also when hydrating)
AttachesContentAlways(hydrating) == TRUE

\* `if (!this._hydrating)`: the template content is cloned and attached
AttachesContent(hydrating) == ~hydrating

\* (variant: the attributes of the element are not read, every signal gets its default)
_buildSignalValuesDefaults(elAttrs) ==
    [i \in 1..Len(signals) |-> <<toCamelCase(signals[i][1]), signals[i][2].default>>]

\* _buildSignalValues(): entries [camelCase name, value] in declaration order
_buildSignalValues(elAttrs) ==
    [i \in 1..Len(signals) |->
        LET val == elAttrs[signals[i][1]]
        IN  <<toCamelCase(signals[i][1]),
              IF val.t # "null" THEN PARSERS(signals[i][2].type, val.v) ELSE signals[i][2].default>>]

\* signalData of _initSignals: the values under their qualified keys
SignalData(ns, signalValues) ==
    FromEntries([i \in 1..Len(signalValues) |-> <<Key(ns, signalValues[i][1]), signalValues[i][2]>>])

\* the script throws at some statement
SetupThrows(beh) == \E i \in 1..Len(beh) : beh[i].op = "throw"

\* (variant: _runSetup without try/catch)
PropagatesFromSetupUncaught(threw) == threw

\* _runSetup wraps the call in try/catch and logs: the error of the script
\* does not reach connectedCallback
PropagatesFromSetup(threw) == FALSE

\* (variant: the connected flag is set before the setup script runs)
MountStepsConnectedFirst(hydrating) ==
    (IF AttachesContent(hydrating) THEN <<"content">> ELSE <<>>)
        \o <<"beginBatch", "publish", "connected", "setup", "rescan", "endBatch", "ready">>

\* (variant: the ready attribute is set before the setup script runs)
MountStepsReadyEarly(hydrating) ==
    (IF AttachesContent(hydrating) THEN <<"content">> ELSE <<>>)
        \o <<"beginBatch", "publish", "ready", "setup", "rescan", "endBatch", "connected">>

\* the statements of connectedCallback after _buildSignalValues, in program
\* order: appendChild(content), beginBatch, _initSignals, _runSetup,
\* _triggerDatastarScan, endBatch (the finally block, on the path without a
\* throw), this._connected = true, setAttribute("data-star-ready")
MountSteps(hydrating) ==
    (IF AttachesContent(hydrating) THEN <<"content">> ELSE <<>>)
        \o <<"beginBatch", "publish", "setup", "rescan", "endBatch", "connected", "ready">>

InSeq(x, q) == \E i \in 1..Len(q) : q[i] = x

\* beginBatch and endBatch of the store, on its count of open batches
beginBatch(depth) == depth + 1

endBatch(depth) == depth - 1

\* the finally block of connectedCallback without its endBatch
FinallyLeavesBatchOpen(r) == r

\* the finally block of connectedCallback, entered by a throw between
\* beginBatch and the end of the try block: endBatch()
Finally(r) ==
    IF InSeq("beginBatch", r.trace) /\ ~InSeq("endBatch", r.trace)
    THEN [r EXCEPT !.depth = endBatch(@), !.trace = Append(@, "endBatch")]
    ELSE r

\* one statement of the mount, on the state st the invocation has produced so
\* far; accepts: mergePatch takes the initial patch (it throws otherwise)
MountStep(s, st, ns, signalData, beh, accepts, ph, value) ==
    CASE s = "content" ->
            [st EXCEPT !.content = @ + 1, !.rewritten = Str(_rewriteSignals(ns, value))]
      [] s = "beginBatch" -> [st EXCEPT !.depth = beginBatch(@)]
      [] s = "endBatch" -> [st EXCEPT !.depth = endBatch(@)]
      [] s = "publish" ->
            IF accepts
            THEN [st EXCEPT !.store = mergePatch(@, signalData), !.dataSignals = signalData,
                            !.unbatched = @ \/ st.depth = 0]
            ELSE [st EXCEPT !.thrown = TRUE]
      [] s = "setup" ->
            [RunSetupOps(beh, st, ns, st.conn, ph) EXCEPT
                !.setupRuns = @ + 1,
                !.setupFailed = SetupThrows(beh),
                !.thrown = PropagatesFromSetup(SetupThrows(beh))]
      [] s = "rescan" -> [st EXCEPT !.rescans = @ + 1]
      [] s = "connected" -> [st EXCEPT !.conn = TRUE]
      [] s = "ready" -> [st EXCEPT !.ready = TRUE]

\* the statements in order; one that throws ends the invocation after the
\* finally block (the catch block of connectedCallback logs the error)
RECURSIVE RunMount(_, _, _, _, _, _, _, _)
RECURSIVE RunMountFrom(_, _, _, _, _, _, _, _)
RunMount(steps, st, ns, signalData, beh, accepts, ph, value) ==
    IF steps = <<>> THEN st
    ELSE RunMountFrom(steps, MountStep(steps[1], st, ns, signalData, beh, accepts, ph, value),
                      ns, signalData, beh, accepts, ph, value)

\* r: the state after the statement steps[1]
RunMountFrom(steps, r, ns, signalData, beh, accepts, ph, value) ==
    CHOOSE out \in
        {IF x.thrown THEN Finally(x)
         ELSE RunMount(rest, [x EXCEPT !.trace = Append(@, steps[1])],
                       ns, signalData, beh, accepts, ph, value) :
            x \in {r}, rest \in {Tail1(steps)}} : TRUE

\* the invocation of e that awaits the promise of _loadImports resumes; beh is
\* what the setup script does in this execution, accepts whether the store
\* takes the initial patch
Mount(e, k, beh, accepts) ==
    /\ k \in 1..Len(pending[e])
    /\ pending[e][k].stage = "ret"
    /\ pending' = [pending EXCEPT ![e] = RemoveAt(@, k)]
    /\ IF ~Proceeds(attached[e])
       THEN /\ aborted' = [aborted EXCEPT ![e] = @ + 1]
            /\ UNCHANGED <<store, attrs, _cleanups, _connected, ready, content, dataSignals,
                           phase, setupRuns, rescans, registered, effects, mountNs,
                           earlyAttrWrite, logVars, rewritten>>
       ELSE \E signalData \in {SignalData(_namespace[e], _buildSignalValues(attrs[e]))},
               st0 \in {[cleanups |-> _cleanups[e], registered |-> registered[e],
                        effects |-> effects[e], store |-> store,
                        attrs |-> attrs[e], early |-> earlyAttrWrite[e],
                        content |-> content[e], rewritten |-> rewritten[e],
                        dataSignals |-> dataSignals[e], setupRuns |-> setupRuns[e],
                        setupFailed |-> setupFailed[e], rescans |-> rescans[e],
                        conn |-> _connected[e], ready |-> ready[e],
                        depth |-> batchDepth, unbatched |-> unbatchedWrite[e],
                        proxyLog |-> <<>>, target |-> EmptyMap,
                        thrown |-> FALSE, trace |-> <<>>]} :
                \E st \in {RunMount(MountSteps(_hydrating[e]), st0, _namespace[e], signalData,
                                      beh, accepts, phase[e], attrValue)} :
                /\ content' = [content EXCEPT ![e] = st.content]
                /\ rewritten' = [rewritten EXCEPT ![e] = st.rewritten]
                /\ dataSignals' = [dataSignals EXCEPT ![e] = st.dataSignals]
                /\ store' = st.store
                /\ attrs' = [attrs EXCEPT ![e] = st.attrs]
                /\ _cleanups' = [_cleanups EXCEPT ![e] = st.cleanups]
                /\ registered' = [registered EXCEPT ![e] = st.registered]
                /\ effects' = [effects EXCEPT ![e] = st.effects]
                /\ earlyAttrWrite' = [earlyAttrWrite EXCEPT ![e] = st.early]
                /\ setupRuns' = [setupRuns EXCEPT ![e] = st.setupRuns]
                /\ setupFailed' = [setupFailed EXCEPT ![e] = st.setupFailed]
                /\ rescans' = [rescans EXCEPT ![e] = st.rescans]
                /\ _connected' = [_connected EXCEPT ![e] = st.conn]
                /\ ready' = [ready EXCEPT ![e] = st.ready]
                /\ mountTrace' = [mountTrace EXCEPT ![e] = st.trace]
                /\ batchDepth' = st.depth
                /\ proxyLog' = [proxyLog EXCEPT ![e] = st.proxyLog]
                /\ unbatchedWrite' = [unbatchedWrite EXCEPT ![e] = st.unbatched]
                /\ phase' = [phase EXCEPT ![e] = IF st.thrown THEN @ ELSE "connected"]
                /\ mountNs' = [mountNs EXCEPT ![e] = IF st.thrown THEN @ ELSE Append(@, _namespace[e])]
                /\ UNCHANGED aborted
    /\ UNCHANGED <<instanceCounter, globalWindow, constructed, attached, _namespace,
                   _hydrating, _imports, attachCount, ran>>
    /\ UNCHANGED <<docVars, attrValue>>

\* the invocation resumes on a store that takes every patch
Resume(e, k, beh) == Mount(e, k, beh, TRUE)

(***************************************************************************)
(* disconnectedCallback                                                    *)
(***************************************************************************)
\* (variant: disconnectedCallback leaves the connected flag alone)
ConnectedKept(conn) == conn

\* `this._connected = false`
ConnectedAfterDisconnect(conn) == FALSE

\* (variant: no try/catch around the call, the first throwing action ends the loop)
CleanupsUntilThrow(list) ==
    IF \E i \in 1..Len(list) : list[i].throws
    THEN SubSeq(list, 1, CHOOSE i \in 1..Len(list) :
                            list[i].throws /\ \A j \in 1..(i - 1) : ~list[j].throws)
    ELSE list

\* the for loop over this._cleanups: the actions it calls, in order; a
\* throwing action is caught and logged, and the loop goes on
CleanupsExecuted(list) == list

\* (variant: the cleanup list is not cleared)
CleanupsKept(list) == list

\* `this._cleanups = []`
CleanupsAfterDisconnect(list) == <<>>

\* (variant: the keys are built without the namespace)
_removeSignalsUnqualified(ns) == [k \in {toCamelCase(a) : a \in SignalAttrs} |-> Null]

\* the patch of _removeSignals: null under every declared signal's key
_removeSignals(ns) == [k \in DeclaredKeys(ns) |-> Null]

\* the page detaches element e: isConnected becomes false and
\* disconnectedCallback runs
Detach(e) ==
    /\ attached[e]
    /\ attached' = [attached EXCEPT ![e] = FALSE]
    /\ _connected' = [_connected EXCEPT ![e] = ConnectedAfterDisconnect(@)]
    /\ LET done == CleanupsExecuted(_cleanups[e])
       IN  /\ ran' = [ran EXCEPT ![e] = @ \o done]
           /\ effects' = [effects EXCEPT ![e] =
                             @ \ {_cleanups[e][i].id : i \in {j \in 1..Len(_cleanups[e]) :
                                     /\ _cleanups[e][j].kind = "effect"
                                     /\ \E d \in 1..Len(done) : done[d].id = _cleanups[e][j].id}}]
    /\ _cleanups' = [_cleanups EXCEPT ![e] = CleanupsAfterDisconnect(@)]
    /\ store' = mergePatch(store, _removeSignals(_namespace[e]))
    /\ phase' = [phase EXCEPT ![e] = "disconnected"]
    /\ UNCHANGED <<instanceCounter, globalWindow, constructed, attrs, _namespace, _hydrating,
                   _imports, ready, content, dataSignals, pending, attachCount, setupRuns,
                   rescans, registered, aborted, mountNs, earlyAttrWrite>>
    /\ UNCHANGED <<docVars, logVars, attrValue, rewritten>>

(***************************************************************************)
(* Specification of one instance: every input of the model.                *)
(***************************************************************************)
TheInstance == 1

Next ==
    \/ Construct(TheInstance)
    \/ Attach(TheInstance)
    \/ \E k \in 1..MaxAttach, ok \in BOOLEAN : ImportSettles(TheInstance, k, ok)
    \/ \E k \in 1..MaxAttach, o \in ScriptOutcomes : ScriptSettles(TheInstance, k, o)
    \/ \E k \in 1..MaxAttach, beh \in SetupBehaviours : Resume(TheInstance, k, beh)
    \/ \E a \in SignalAttrs : \E v \in AttrInputs(a) : SetAttribute(TheInstance, a, v)
    \/ Detach(TheInstance)

Spec == Init /\ [][Next]_vars

(***************************************************************************)
(* Specification of a page with two instances whose markup carries         *)
(* arbitrary hydration ids.  The dependencies of the component are already *)
(* defined as globals, the setup script registers one cleanup action, the  *)
(* page changes the count attribute.                                       *)
(***************************************************************************)
PageInit == InitWith([g \in {S_chart, Pascal(S_plotly)} |-> Module(g)])

PageNext ==
    \E e \in Elements :
        \/ ConstructAny(e)
        \/ Attach(e)
        \/ \E k \in 1..MaxAttach : Resume(e, k, <<OnCleanupOp(FALSE)>>)
        \/ \E v \in AttrInputs(S_count) : SetAttribute(e, S_count, v)
        \/ Detach(e)

PageSpec == PageInit /\ [][PageNext]_vars

(***************************************************************************)
(* Specification of the rendering of one instance: the element carries any *)
(* hydration id (none, an empty one, a server id), the template content    *)
(* carries any attribute value over a small alphabet.  The dependencies    *)
(* are already defined as globals.                                         *)
(***************************************************************************)
MaxLen == 5

\* the sigil, an identifier character of either case, a digit, a separator
Alphabet == {"$", "c", "X", "1", "-"}

Texts == UNION {[1..n -> Alphabet] : n \in 0..MaxLen}

\* the values of data-star-id in the markup of element e
MarkupServerIds(e) == {Null, Str(<<>>), ServerId(e)}

\* the page creates element e from markup with any value of data-star-id
ConstructFromMarkup(e) == \E sid \in MarkupServerIds(e) : Constructor(e, sid)

RenderInit ==
    /\ InitInstances([g \in {S_chart, Pascal(S_plotly)} |-> Module(g)])
    /\ InitRegistered
    /\ attrValue \in Texts

RenderNext ==
    \/ ConstructFromMarkup(TheInstance)
    \/ Attach(TheInstance)
    \/ \E k \in 1..MaxAttach : Resume(TheInstance, k, <<OnCleanupOp(FALSE)>>)

RenderSpec == RenderInit /\ [][RenderNext]_vars

(***************************************************************************)
(* Specification of the dependency loading of two instances that are       *)
(* created with or without hydration ids.                                  *)
(***************************************************************************)
LoadNext ==
    \E e \in Elements :
        \/ Construct(e)
        \/ Attach(e)
        \/ \E k \in 1..MaxAttach, ok \in BOOLEAN : ImportSettles(e, k, ok)
        \/ \E k \in 1..MaxAttach, o \in AllScriptOutcomes : ScriptSettles(e, k, o)
        \/ \E k \in 1..MaxAttach : Resume(e, k, <<OnCleanupOp(FALSE)>>)

LoadSpec == Init /\ [][LoadNext]_vars

(***************************************************************************)
(* initStarElements / registerStarElement                                  *)
(***************************************************************************)
\* extractPrefixedAttrs(template, "data-signal:", parseCodec) throws: the
\* parser of some declared codec rejects the default
RegisterThrows(tpl) ==
    \E i \in 1..Len(tpl.signals) : parseCodec(tpl.signals[i][2]).default = Thrown

\* extractPrefixedAttrs(template, "data-signal:", parseCodec): the declared
\* signals of the template with their codecs
ParsedSignals(tpl) ==
    [i \in 1..Len(tpl.signals) |-> <<tpl.signals[i][1], parseCodec(tpl.signals[i][2])>>]

\* the number of executions recorded for tag in runs
RunsOf(runs, tag) == IF tag \in DOMAIN runs THEN runs[tag] ELSE 0

\* a static script that throws, were its error not caught
PropagatesFromStaticUncaught(kind) == kind = "throws"

\* registerStarElement: try { new Function(staticScript.textContent)() }
\* catch (e) { console.error(...) }: the error of a static script of the given
\* kind does not leave registerStarElement
PropagatesFromStatic(kind) == FALSE

\* registerStarElement: `if (staticScript)` runs the static script of the
\* template once; kind is "none" (no script[data-static]), "ok" or "throws"
RunStatic(runs, tpl) ==
    IF tpl.static = "none" THEN runs ELSE Put(runs, tpl.tag, RunsOf(runs, tpl.tag) + 1)

\* the for loop of initStarElements over the templates tpls with the tag
\* names def already defined and the static scripts counted in runs: a
\* template without a data-star: attribute is skipped; registerStarElement
\* extracts the declarations (parseCodec may throw), runs the static script,
\* and defines the tag; an error leaves the loop and the function
RECURSIVE InitLoop(_, _, _, _)
InitLoop(tpls, def, runs, codecs) ==
    IF tpls = <<>>
    THEN [defined |-> def, state |-> "done", staticRuns |-> runs, signalCodecs |-> codecs]
    ELSE IF ~tpls[1].star THEN InitLoop(Tail1(tpls), def, runs, codecs)
    ELSE IF RegisterThrows(tpls[1])
         THEN [defined |-> def, state |-> "threw", staticRuns |-> runs, signalCodecs |-> codecs]
    ELSE IF PropagatesFromStatic(tpls[1].static)
         THEN [defined |-> def, state |-> "threw", staticRuns |-> RunStatic(runs, tpls[1]),
               signalCodecs |-> codecs]
    ELSE InitLoop(Tail1(tpls), def \cup {tpls[1].tag}, RunStatic(runs, tpls[1]),
                  Put(codecs, tpls[1].tag, ParsedSignals(tpls[1])))

\* the variables of the instances and of the store
instanceVars ==
    <<instanceCounter, globalWindow, store, constructed, attrs, attached, _namespace,
      _hydrating, _cleanups, _imports, _connected, ready, content, dataSignals, pending,
      attachCount, phase, setupRuns, rescans, registered, ran, effects, aborted, mountNs,
      earlyAttrWrite, logVars, attrValue, rewritten>>

\* DOMContentLoaded (or the module is evaluated after it): initStarElements runs
initStarElements ==
    /\ initState = "loading"
    /\ LET r == InitLoop(templates, defined, staticRuns, signalCodecs)
       IN  /\ defined' = r.defined
           /\ initState' = r.state
           /\ staticRuns' = r.staticRuns
           /\ signalCodecs' = r.signalCodecs
    /\ UNCHANGED <<templates, instanceVars>>

(***************************************************************************)
(* Specification of the registration: the document holds up to             *)
(* MaxTemplates templates, each a component with one signal declaration or *)
(* a template without a data-star: attribute.                              *)
(***************************************************************************)
MaxTemplates == 3

\* data-signal:count="int|=0", "json|=1", "json|={" (malformed), "json|=" (empty)
Codecs ==
    { <<"i", "n", "t", "|", "=", "0">>,
      <<"j", "s", "o", "n", "|", "=", "1">>,
      <<"j", "s", "o", "n", "|", "=", "{">>,
      <<"j", "s", "o", "n", "|", "=">> }

\* the tag name of the i-th template: x-1, x-2, ...
TagOf(i) == <<"x", "-">> \o ToDigits(i)

StaticKinds == {"none", "ok", "throws"}

\* the declarations that come with a static script: a well-formed and a
\* malformed one
StaticCodecs ==
    { <<"i", "n", "t", "|", "=", "0">>,
      <<"j", "s", "o", "n", "|", "=", "{">> }

\* the i-th template of a document: a component with the codec and the static
\* script, or no component; the first may also be the template of my-counter
TemplateKinds(i) ==
    {[star |-> TRUE, tag |-> TagOf(i), signals |-> << <<S_count, c>> >>, static |-> "none"] :
            c \in Codecs}
        \cup {[star |-> TRUE, tag |-> TagOf(i), signals |-> << <<S_count, c>> >>, static |-> k] :
                    c \in StaticCodecs, k \in StaticKinds}
        \cup {[star |-> FALSE, tag |-> TagOf(i), signals |-> <<>>, static |-> "none"]}
        \cup (IF i = 1 THEN {[TheTemplate EXCEPT !.static = k] : k \in StaticKinds} ELSE {})

\* the documents with n templates
RECURSIVE DocumentsOf(_)
DocumentsOf(n) ==
    IF n = 0 THEN {<<>>}
    ELSE {Append(d, t) : d \in DocumentsOf(n - 1), t \in TemplateKinds(n)}

Documents == UNION {DocumentsOf(n) : n \in 1..MaxTemplates}

RegInit ==
    /\ InitInstances(EmptyMap)
    /\ templates \in Documents
    /\ defined = {}
    /\ initState = "loading"
    /\ staticRuns = EmptyMap
    /\ signalCodecs = EmptyMap
    /\ attrValue = TheAttrValue

RegNext ==
    \/ initStarElements
    \/ Construct(TheInstance)

RegSpec == RegInit /\ [][RegNext]_vars

(***************************************************************************)
(* Specification of the registration of one component whose signal is      *)
(* declared with any codec string of up to MaxTokens tokens.               *)
(***************************************************************************)
MaxTokens == 3

\* tokens of a codec string: type names, typed defaults, a constraint, and
\* names of properties of Object.prototype
CodecTokens ==
    { S_int, S_json, S_boolean,
      <<"=", "5">>, <<"=", "x">>,
      <<"m", "i", "n", ":", "0">>,
      S_toString, S_constructor }

\* parts.join("|")
RECURSIVE JoinPipe(_)
JoinPipe(parts) ==
    IF Len(parts) = 1 THEN parts[1] ELSE parts[1] \o <<"|">> \o JoinPipe(Tail1(parts))

CodecStrings ==
    {JoinPipe(q) : q \in UNION {[1..n -> CodecTokens] : n \in 1..MaxTokens}}

CodecInit ==
    /\ InitInstances(EmptyMap)
    /\ templates \in {<<[star |-> TRUE, tag |-> TagOf(1), signals |-> << <<S_count, c>> >>,
                          static |-> "none"]>> : c \in CodecStrings}
    /\ defined = {}
    /\ initState = "loading"
    /\ staticRuns = EmptyMap
    /\ signalCodecs = EmptyMap
    /\ attrValue = TheAttrValue

CodecNext == initStarElements

CodecSpec == CodecInit /\ [][CodecNext]_vars

(***************************************************************************)
(* Specification of one instance whose setup script reads and assigns      *)
(* properties of sp, up to MaxOps times per execution.                     *)
(***************************************************************************)
MaxOps == 2

S_x == <<"x">>

\* the names the script uses: $$count (a declared signal), $$x (not
\* declared), count (no sigils)
ProxyProps == {S_sigils \o S_count, S_sigils \o S_x, S_count}

ProxyOps ==
    {ProxyGetOp(prop) : prop \in ProxyProps}
        \cup {ProxySetOp(prop, Num(7)) : prop \in ProxyProps}

ProxyBehaviours == UNION {[1..n -> ProxyOps] : n \in 1..MaxOps}

ProxyNext ==
    \/ Construct(TheInstance)
    \/ Attach(TheInstance)
    \/ \E k \in 1..MaxAttach, beh \in ProxyBehaviours : Resume(TheInstance, k, beh)
    \/ Detach(TheInstance)

ProxySpec == PageInit /\ [][ProxyNext]_vars

(***************************************************************************)
(* Specification of one instance whose setup script creates effects        *)
(* through both names and registers cleanup actions, up to MaxOps calls    *)
(* per execution.                                                          *)
(***************************************************************************)
EffectOps == {EffectOp, DatastarEffectOp, OnCleanupOp(TRUE), OnCleanupOp(FALSE)}

EffectBehaviours == UNION {[1..n -> EffectOps] : n \in 1..MaxOps}

EffectNext ==
    \/ Construct(TheInstance)
    \/ Attach(TheInstance)
    \/ \E k \in 1..MaxAttach, beh \in EffectBehaviours : Resume(TheInstance, k, beh)
    \/ Detach(TheInstance)

EffectSpec == PageInit /\ [][EffectNext]_vars

(***************************************************************************)
(* Specification of a page with two instances and a page-level signal: the *)
(* markup carries arbitrary hydration ids, the setup script registers a    *)
(* cleanup action or writes the page-level signal `count` through          *)
(* datastar.mergePatch.  The dependencies are already defined as globals.  *)
(***************************************************************************)
FrameBehaviours ==
    { <<OnCleanupOp(FALSE)>>,
      <<MergePatchOp(S_count, Str(<<"7">>))>> }

FrameNext ==
    \E e \in Elements :
        \/ ConstructAny(e)
        \/ Attach(e)
        \/ \E k \in 1..MaxAttach, beh \in FrameBehaviours : Resume(e, k, beh)
        \/ Detach(e)

FrameSpec == PageInit /\ [][FrameNext]_vars

(***************************************************************************)
(* Specification of one instance whose dependency loads all settle: the    *)
(* browser fires load or error for every script element and settles every  *)
(* import, and the job queue runs every continuation that is ready.        *)
(***************************************************************************)
LiveNext ==
    \/ Construct(TheInstance)
    \/ Attach(TheInstance)
    \/ \E k \in 1..MaxAttach, ok \in BOOLEAN : ImportSettles(TheInstance, k, ok)
    \/ \E k \in 1..MaxAttach, o \in ScriptOutcomes : ScriptSettles(TheInstance, k, o)
    \/ \E k \in 1..MaxAttach : Resume(TheInstance, k, <<OnCleanupOp(FALSE)>>)
    \/ Detach(TheInstance)

\* a pending dependency load of e settles
Settles(e) ==
    \/ \E k \in 1..MaxAttach, ok \in BOOLEAN : ImportSettles(e, k, ok)
    \/ \E k \in 1..MaxAttach, o \in ScriptOutcomes : ScriptSettles(e, k, o)

\* an invocation of e whose _loadImports has returned is resumed
Resumes(e) == \E k \in 1..MaxAttach : Resume(e, k, <<OnCleanupOp(FALSE)>>)

LiveSpec ==
    /\ Init
    /\ [][LiveNext]_vars
    /\ WF_vars(Settles(TheInstance))
    /\ WF_vars(Resumes(TheInstance))

(***************************************************************************)
(* Specification of one instance on a store that may reject the initial    *)
(* patch (mergePatch throws).  The dependencies are already defined as     *)
(* globals, the setup script registers one cleanup action.                 *)
(***************************************************************************)
FaultNext ==
    \/ Construct(TheInstance)
    \/ Attach(TheInstance)
    \/ \E k \in 1..MaxAttach, accepts \in BOOLEAN :
            Mount(TheInstance, k, <<OnCleanupOp(FALSE)>>, accepts)
    \/ \E v \in AttrInputs(S_count) : SetAttribute(TheInstance, S_count, v)
    \/ Detach(TheInstance)

FaultSpec == PageInit /\ [][FaultNext]_vars

(***************************************************************************)
(* Helpers of the properties.                                              *)
(***************************************************************************)
\* a handler of element e ran in this step
Acted(e) ==
    \/ constructed'[e] # constructed[e]
    \/ attached'[e] # attached[e]
    \/ pending'[e] # pending[e]
    \/ attrs'[e] # attrs[e]

\* the namespaces a constructor can generate in this model
GeneratedNamespaces == {GenNamespace(n) : n \in 0..Cardinality(Elements)}

\* no declared signal of e is in the store
SignalsAbsent(e) == DeclaredKeys(_namespace[e]) \cap DOMAIN store = {}

\* how often cleanup action id of e has been executed
TimesRun(e, id) == Cardinality({i \in 1..Len(ran[e]) : ran[e][i].id = id})

InCleanupList(e, id) == \E i \in 1..Len(_cleanups[e]) : _cleanups[e][i].id = id

(***************************************************************************)
(* C1                                                                      *)
(***************************************************************************)
\* the namespaces of e1 and e2 differ and no qualified key is shared
Isolated(e1, e2) ==
    /\ _namespace[e1] # _namespace[e2]
    /\ DeclaredKeys(_namespace[e1]) \cap DeclaredKeys(_namespace[e2]) = {}

\* a step of a handler of e1 leaves every value read under a key of e2 as it was
WritesStayOutOf(e1, e2) ==
    Acted(e1) => \A k \in DeclaredKeys(_namespace[e2]) : getPath(store', k) = getPath(store, k)

MountedPair(e1, e2) == e1 # e2 /\ phase[e1] = "connected" /\ phase[e2] = "connected"

\* e1 and e2 do not both take their namespace from a hydration id, and a
\* hydration id does not have the form of a generated namespace
NotBothHydrated(e1, e2) ==
    /\ e1 # e2 /\ constructed[e1] /\ constructed[e2]
    /\ ~(_hydrating[e1] /\ _hydrating[e2])
    /\ \A e \in {e1, e2} : _hydrating[e] => _namespace[e] \notin GeneratedNamespaces

C2_RemountUsesFreshNamespace ==
    \A e \in Elements :
        (~_hydrating[e] /\ Len(mountNs[e]) >= 2) => mountNs[e][2] # mountNs[e][1]

\* C2 amended: a generated namespace is given to one element only, and every
\* mount of an element, also after disconnect and reconnect, runs under the
\* namespace fixed by its constructor.
C2_NamespaceFixedPerElement ==
    /\ \A e1, e2 \in Elements :
          (e1 # e2 /\ constructed[e1] /\ constructed[e2] /\ ~_hydrating[e1] /\ ~_hydrating[e2])
              => _namespace[e1] # _namespace[e2]
    /\ \A e \in Elements : \A i \in 1..Len(mountNs[e]) : mountNs[e][i] = _namespace[e]

\* both elements are client-named and one of them has been mounted twice
C2_Witness ==
    /\ constructed[1] /\ constructed[2] /\ ~_hydrating[1] /\ ~_hydrating[2]
    /\ attachCount[1] = 2 /\ Len(mountNs[1]) = 2 /\ Len(ran[1]) > 0

(***************************************************************************)
(* C3                                                                      *)
(***************************************************************************)
\* an invocation of connectedCallback of e finishes in this step while e is detached
ResumesDetached(e) == Len(pending'[e]) < Len(pending[e]) /\ ~attached[e]

\* C3: an invocation that resumes from dependency loading while the element
\* is detached attaches no content, publishes nothing, runs no setup,
\* dispatches no rescan, registers nothing and sets neither the connected flag
\* nor the ready attribute.
C3_DetachedResumeHasNoEffect ==
    [][\A e \in Elements :
          ResumesDetached(e) =>
              /\ content'[e] = content[e]
              /\ store' = store
              /\ dataSignals'[e] = dataSignals[e]
              /\ setupRuns'[e] = setupRuns[e]
              /\ rescans'[e] = rescans[e]
              /\ _cleanups'[e] = _cleanups[e]
              /\ _connected'[e] = _connected[e]
              /\ ready'[e] = ready[e]]_vars

\* the only invocation of the element returned at the guard and left no trace
C3_Witness ==
    /\ aborted[TheInstance] = 1 /\ attachCount[TheInstance] = 1 /\ pending[TheInstance] = <<>>
    /\ content[TheInstance] = 0 /\ setupRuns[TheInstance] = 0
    /\ ~_connected[TheInstance] /\ ~ready[TheInstance] /\ SignalsAbsent(TheInstance)

(***************************************************************************)
(* C4                                                                      *)
(***************************************************************************)
\* C4: a cleanup action that is still registered has not been executed, one
\* that is no longer registered has been executed exactly once, and after
\* disconnect none is registered any more.
C4_CleanupsRunExactlyOnce ==
    \A e \in Elements :
        /\ \A id \in 1..registered[e] :
              TimesRun(e, id) = IF InCleanupList(e, id) THEN 0 ELSE 1
        /\ phase[e] = "disconnected" => _cleanups[e] = <<>>

\* the element was mounted, and was disconnected twice: its cleanup actions
\* have all been executed
C4_Witness ==
    /\ phase[TheInstance] = "disconnected" /\ attachCount[TheInstance] = 2
    /\ registered[TheInstance] = 2 /\ Len(ran[TheInstance]) = 2
    /\ setupRuns[TheInstance] = 1 /\ pending[TheInstance] = <<>>

(***************************************************************************)
(* C5                                                                      *)
(***************************************************************************)
\* disconnectedCallback of e has run and no mount has completed since
DisconnectedSince(e) ==
    \/ phase[e] = "disconnected"
    \/ phase[e] = "connecting" /\ attachCount[e] >= 2

\* C5: from the return of disconnectedCallback until the next completed mount
\* no declared signal of the instance is in the store, whatever attributes
\* the page sets in between.
C5_SignalsAbsentAfterDisconnect ==
    \A e \in Elements : DisconnectedSince(e) => SignalsAbsent(e)

\* the element was mounted and detached, carries the attribute count="5", and
\* its signals are gone
C5_Witness ==
    /\ phase[TheInstance] = "disconnected" /\ setupRuns[TheInstance] >= 1
    /\ attrs[TheInstance][S_count] = Str(<<"5">>)
    /\ Lookup(dataSignals[TheInstance], Key(_namespace[TheInstance], S_count)) = Num(0)
    /\ SignalsAbsent(TheInstance)

(***************************************************************************)
(* C6                                                                      *)
(***************************************************************************)
Ids(list) == [i \in 1..Len(list) |-> list[i].id]

\* C6: the cleanup actions executed so far, followed by those still
\* registered, are all registered actions in registration order: none is
\* skipped or reordered, also behind one that throws; and after disconnect
\* the list is empty, the connected flag is false and the declared signals
\* are deleted.
C6_CleanupsInOrderDespiteThrow ==
    \A e \in Elements :
        /\ Ids(ran[e]) \o Ids(_cleanups[e]) = [i \in 1..registered[e] |-> i]
        /\ phase[e] = "disconnected" =>
              /\ _cleanups[e] = <<>>
              /\ ~_connected[e]
              /\ SignalsAbsent(e)

\* one disconnect has executed a throwing cleanup action and then the dispose
\* function of the effect registered after it
C6_Witness ==
    /\ phase[TheInstance] = "disconnected" /\ attachCount[TheInstance] = 1
    /\ ran[TheInstance] = << [id |-> 1, throws |-> TRUE, kind |-> "onCleanup"],
                            [id |-> 2, throws |-> FALSE, kind |-> "effect"] >>
    /\ effects[TheInstance] = {}
    /\ ~_connected[TheInstance]

(***************************************************************************)
(* C7                                                                      *)
(***************************************************************************)
\* C7: attributeChangedCallback never patches the store outside the
\* connected state (not while dependencies load, not during the setup of the
\* mount, not after disconnect), and the connected flag is true in the
\* connected state only.
C7_AttributePatchOnlyWhileConnected ==
    \A e \in Elements :
        /\ ~earlyAttrWrite[e]
        /\ _connected[e] => phase[e] = "connected"

\* the setup script of the first mount has set count="5": the store still
\* holds the published default
C7_Witness ==
    /\ phase[TheInstance] = "connected" /\ setupRuns[TheInstance] = 1
    /\ attrs[TheInstance][S_count] = Str(<<"5">>)
    /\ getPath(store, Key(_namespace[TheInstance], S_count)) = Num(0)

(***************************************************************************)
(* C8                                                                      *)
(***************************************************************************)
\* a mount of e completes in this step
MountCompletes(e) == setupRuns'[e] = setupRuns[e] + 1

\* codec int|=0 on the attribute values of the model
ExpectedCount(v) ==
    IF v = Null THEN Num(0) ELSE IF v = Str(<<"5">>) THEN Num(5) ELSE NaN

\* codec int without default on the attribute values of the model; a null
\* default leaves the key absent
ExpectedMaxLevel(v) ==
    IF v = Null THEN Undefined
    ELSE IF v = Str(<<"1", "5">>) THEN Num(15)
    ELSE IF v = Str(<<"-", "5">>) THEN Num(0 - 5)
    ELSE NaN

\* C8: when a mount completes (and its setup script has not itself changed
\* an attribute), the store holds for every declared signal the parse of the
\* attribute the element carried when loading finished, or the codec default
\* when the attribute is absent.
C8_MountPublishesAttributeValues ==
    [][\A e \in Elements :
          (MountCompletes(e) /\ attrs'[e] = attrs[e]) =>
              /\ getPath(store', Key(_namespace[e], S_count)) = ExpectedCount(attrs[e][S_count])
              /\ getPath(store', Key(_namespace[e], S_maxLevel)) = ExpectedMaxLevel(attrs[e][S_max_level])]_vars

\* the mount of an element with count="5" and no max-level attribute has completed
C8_Witness ==
    /\ phase[TheInstance] = "connected" /\ setupRuns[TheInstance] = 1
    /\ attrs[TheInstance][S_count] = Str(<<"5">>)
    /\ attrs[TheInstance][S_max_level] = Null
    /\ getPath(store, Key(_namespace[TheInstance], S_count)) = Num(5)
    /\ Key(_namespace[TheInstance], S_maxLevel) \notin DOMAIN store

(***************************************************************************)
(* C9                                                                      *)
(***************************************************************************)
\* the store value of max-level (codec int|min:0|max:10) of a connected
\* instance that carries the attribute value v is x
MaxLevelYields(e, v, x) ==
    (phase[e] = "connected" /\ attrs[e][S_max_level] = v)
        => getPath(store, Key(_namespace[e], S_maxLevel)) = x

\* without the attribute the store holds the codec default (absent when null)
MaxLevelOmittedYieldsDefault(e) ==
    (phase[e] = "connected" /\ attrs[e][S_max_level] = Null)
        => IF SignalDef(S_max_level).default = Null
           THEN Key(_namespace[e], S_maxLevel) \notin DOMAIN store
           ELSE getPath(store, Key(_namespace[e], S_maxLevel)) = SignalDef(S_max_level).default

\* C9 as claimed: "15" is clamped to 10, "-5" is clamped to 0, an omitted
\* attribute gives the codec default.
C9_ValuesAreClamped ==
    \A e \in Elements :
        /\ MaxLevelYields(e, Str(<<"1", "5">>), Num(10))
        /\ MaxLevelYields(e, Str(<<"-", "5">>), Num(0))
        /\ MaxLevelOmittedYieldsDefault(e)

\* C9 amended: the tokens min:0 and max:10 are ignored; "15" gives 15, "-5"
\* gives -5, an omitted attribute gives the codec default (null: key absent).
C9_MinMaxTokensIgnored ==
    \A e \in Elements :
        /\ MaxLevelYields(e, Str(<<"1", "5">>), Num(15))
        /\ MaxLevelYields(e, Str(<<"-", "5">>), Num(0 - 5))
        /\ MaxLevelOmittedYieldsDefault(e)

\* a connected instance carries max-level="15" and the store holds 15
C9_Witness ==
    /\ phase[TheInstance] = "connected"
    /\ attrs[TheInstance][S_max_level] = Str(<<"1", "5">>)
    /\ getPath(store, Key(_namespace[TheInstance], S_maxLevel)) = Num(15)

(***************************************************************************)
(* C10                                                                     *)
(***************************************************************************)
\* an invocation of connectedCallback of e finishes in this step while e is attached
ResumesAttached(e) == Len(pending'[e]) < Len(pending[e]) /\ attached[e]

\* the state in which a mount of e ends, given the signal attributes the
\* element carried when loading finished; it does not depend on how the
\* markup of the instance came about
MountedAsRendered(e) ==
    /\ getPath(store', Key(_namespace[e], S_count)) = ExpectedCount(attrs[e][S_count])
    /\ getPath(store', Key(_namespace[e], S_maxLevel)) = ExpectedMaxLevel(attrs[e][S_max_level])
    /\ DOMAIN dataSignals'[e] = DeclaredKeys(_namespace[e])
    /\ setupRuns'[e] = setupRuns[e] + 1
    /\ rescans'[e] = rescans[e] + 1
    /\ _connected'[e]
    /\ ready'[e]

\* C10: a hydrating instance never has template content attached (a freshly
\* rendered one gets one copy per mount), and the mount of a hydrating
\* instance ends in the same state as the mount of a freshly rendered
\* instance with the same signal attributes: the same declared signals with
\* the same values under its namespace, setup executed, rescan dispatched,
\* connected flag true, ready attribute set.
C10_HydratedMountEqualsFreshMount ==
    /\ [](\A e \in Elements : _hydrating[e] => content[e] = 0)
    /\ [][\A e \in Elements :
             ResumesAttached(e) =>
                 /\ MountedAsRendered(e)
                 /\ content'[e] = IF _hydrating[e] THEN content[e] ELSE content[e] + 1]_vars

\* a hydrated and a freshly rendered instance, both with count="5", are mounted
C10_Witness ==
    /\ _hydrating[1] /\ ~_hydrating[2]
    /\ phase[1] = "connected" /\ phase[2] = "connected"
    /\ attrs[1][S_count] = Str(<<"5">>) /\ attrs[2][S_count] = Str(<<"5">>)
    /\ getPath(store, Key(_namespace[1], S_count)) = Num(5)
    /\ getPath(store, Key(_namespace[2], S_count)) = Num(5)
    /\ content[1] = 0 /\ content[2] = 1

(***************************************************************************)
(* C11                                                                     *)
(***************************************************************************)
S_star_my_counter_id == <<"_", "s", "t", "a", "r", "_", "m", "y", "_", "c", "o", "u",
                          "n", "t", "e", "r", "_", "i", "d">>

\* the constructor of e runs in this step
Constructs(e) == constructed'[e] /\ ~constructed[e]

\* the constructor gave e the generated namespace of the current counter value
GetsGeneratedNamespace(e) ==
    /\ _namespace'[e] = S_star_my_counter_id \o ToDigits(instanceCounter)
    /\ instanceCounter' = instanceCounter + 1
    /\ ~_hydrating'[e]

\* the constructor gave e the value of data-star-id as namespace
GetsServerNamespace(e) ==
    /\ _namespace'[e] = attrs'[e][S_data_star_id].v
    /\ instanceCounter' = instanceCounter
    /\ _hydrating'[e]

\* C11 (as stated): an element that carries data-star-id at construction,
\* whatever its value (the empty string included), gets that value as its
\* namespace and the hydrating flag; an element without the attribute gets a
\* generated namespace and no hydrating flag.
C11_AnyHydrationIdIsTheNamespace ==
    [][\A e \in Elements : Constructs(e) =>
            IF attrs'[e][S_data_star_id].t # "null"
            THEN GetsServerNamespace(e) ELSE GetsGeneratedNamespace(e)]_vars

\* C11 (amended): an element that carries a non-empty data-star-id at
\* construction gets that value as its namespace and the hydrating flag; an
\* element without the attribute, or with an empty one, gets the namespace
\* generated from the tag name and the counter, and no hydrating flag.
C11_NonEmptyHydrationIdIsTheNamespace ==
    [][\A e \in Elements : Constructs(e) =>
            IF attrs'[e][S_data_star_id].t # "null" /\ attrs'[e][S_data_star_id].v # <<>>
            THEN GetsServerNamespace(e) ELSE GetsGeneratedNamespace(e)]_vars

\* an element constructed with an empty data-star-id has been mounted under
\* the first generated namespace, with the template content attached
C11_Witness ==
    /\ constructed[TheInstance]
    /\ attrs[TheInstance][S_data_star_id] = Str(<<>>)
    /\ _namespace[TheInstance] = S_star_my_counter_id \o <<"0">>
    /\ ~_hydrating[TheInstance]
    /\ content[TheInstance] = 1

(***************************************************************************)
(* C12                                                                     *)
(***************************************************************************)
S_my_counter_id == <<"m", "y", "_", "c", "o", "u", "n", "t", "e", "r", "_", "i", "d">>

\* the first instance constructed without a hydration id gets the namespace
\* prefix \o "0", the second one prefix \o "1"
FirstTwoGet(prefix) ==
    \A e \in Elements :
        Constructs(e) /\ ~_hydrating'[e] =>
            /\ instanceCounter = 0 => _namespace'[e] = prefix \o <<"0">>
            /\ instanceCounter = 1 => _namespace'[e] = prefix \o <<"1">>

\* C12 (as stated): from a reset counter, the first two instances of
\* my-counter constructed without hydration ids get the namespaces
\* my_counter_id0 and my_counter_id1, in construction order.
C12_PlainTagNamespaces == [][FirstTwoGet(S_my_counter_id)]_vars

\* C12 (amended): from a reset counter, the first two instances of my-counter
\* constructed without hydration ids get the namespaces _star_my_counter_id0
\* and _star_my_counter_id1, in construction order.
C12_StarPrefixedNamespaces == [][FirstTwoGet(S_star_my_counter_id)]_vars

\* element 2 was constructed first and has _star_my_counter_id0, element 1
\* was constructed second and has _star_my_counter_id1
C12_Witness ==
    /\ instanceCounter = 2
    /\ _namespace[2] = S_star_my_counter_id \o <<"0">>
    /\ _namespace[1] = S_star_my_counter_id \o <<"1">>
    /\ ~_hydrating[1] /\ ~_hydrating[2]

(***************************************************************************)
(* C13                                                                     *)
(***************************************************************************)
\* the setup script of e was executed in this step and threw
SetupThrew(e) == setupRuns'[e] = setupRuns[e] + 1 /\ setupFailed'[e]

\* the cleanup list after the step is the list before it followed by every
\* action registered during the step, in registration order
KeepsRegistrations(e) ==
    /\ Len(_cleanups'[e]) = Len(_cleanups[e]) + (registered'[e] - registered[e])
    /\ SubSeq(_cleanups'[e], 1, Len(_cleanups[e])) = _cleanups[e]
    /\ \A j \in 1..(registered'[e] - registered[e]) :
            _cleanups'[e][Len(_cleanups[e]) + j].id = registered[e] + j

\* C13: a setup script that throws does not abort the mount: the rescan
\* event is dispatched, the connected flag and the ready attribute are set,
\* and the cleanup actions registered before the throw stay registered.
C13_ThrowingSetupStillMounts ==
    [][\A e \in Elements : SetupThrew(e) =>
            /\ rescans'[e] = rescans[e] + 1
            /\ _connected'[e]
            /\ ready'[e]
            /\ registered'[e] > registered[e]
            /\ KeepsRegistrations(e)]_vars

\* the first mount ran a setup script that registered a cleanup action and
\* then threw; the instance is connected and ready with the action registered
C13_Witness ==
    /\ setupFailed[TheInstance]
    /\ setupRuns[TheInstance] = 1
    /\ rescans[TheInstance] = 1
    /\ _connected[TheInstance] /\ ready[TheInstance]
    /\ Len(_cleanups[TheInstance]) = 1

(***************************************************************************)
(* C14                                                                     *)
(***************************************************************************)
\* an awaited load of an invocation of e settled in this step
LoaderStep(e) ==
    /\ pending'[e] # pending[e]
    /\ attached' = attached
    /\ aborted' = aborted
    /\ setupRuns' = setupRuns

\* the import of chart awaited by the k-th invocation of e failed in this
\* step: the invocation was awaiting it and the global is still undefined
ImportFailed(e, k) ==
    /\ LoaderStep(e)
    /\ k \in 1..Len(pending[e])
    /\ pending[e][k] = [stage |-> "esm", i |-> 1]
    /\ (Len(pending'[e]) = Len(pending[e]) => pending'[e][k] # pending[e][k])
    /\ ~Truthy(Lookup(globalWindow', S_chart))

\* the script of plotly awaited by the k-th invocation of e fired error (or
\* load without defining a global) in this step
ScriptFailed(e, k) ==
    /\ LoaderStep(e)
    /\ k \in 1..Len(pending[e])
    /\ pending[e][k] = [stage |-> "umd", i |-> 1]
    /\ (Len(pending'[e]) = Len(pending[e]) => pending'[e][k] # pending[e][k])
    /\ ~Truthy(findGlobal(globalWindow', S_plotly))

\* some declared dependency of e is bound to undefined
SomeDependencyUndefined(e) ==
    \E a \in {S_chart, S_plotly} : a \in DOMAIN _imports[e] /\ _imports[e][a] = Undefined

\* C14: when an import or a legacy script fails to load, the invocation goes
\* on with the remaining dependencies (after a failed import the script of
\* plotly is injected and awaited, or its global is taken if it is already
\* defined), the failed alias is bound to undefined,
\* and the mount that follows sets the connected flag and the ready attribute.
C14_FailedDependencyIsNotFatal ==
    [][\A e \in Elements :
          /\ \A k \in 1..MaxAttach :
                /\ ImportFailed(e, k) =>
                      /\ Len(pending'[e]) = Len(pending[e])
                      /\ \/ pending'[e][k] = [stage |-> "umd", i |-> 1]
                         \/ /\ pending'[e][k] = [stage |-> "ret", i |-> 0]
                            /\ S_plotly \in DOMAIN _imports'[e]
                            /\ Truthy(_imports'[e][S_plotly])
                      /\ S_chart \in DOMAIN _imports'[e]
                      /\ _imports'[e][S_chart] = Undefined
                /\ ScriptFailed(e, k) =>
                      /\ Len(pending'[e]) = Len(pending[e])
                      /\ pending'[e][k] = [stage |-> "ret", i |-> 0]
                      /\ S_plotly \in DOMAIN _imports'[e]
                      /\ _imports'[e][S_plotly] = Undefined
          /\ ResumesAttached(e) /\ SomeDependencyUndefined(e) =>
                /\ setupRuns'[e] = setupRuns[e] + 1
                /\ _connected'[e]
                /\ ready'[e]]_vars

\* the import of chart failed, the script of plotly was loaded after it and
\* defined its global, and the instance is connected and ready
C14_Witness ==
    /\ S_chart \in DOMAIN _imports[TheInstance]
    /\ _imports[TheInstance][S_chart] = Undefined
    /\ ~Truthy(Lookup(globalWindow, S_chart))
    /\ S_plotly \in DOMAIN _imports[TheInstance]
    /\ _imports[TheInstance][S_plotly] = Module(Pascal(S_plotly))
    /\ setupRuns[TheInstance] = 1
    /\ _connected[TheInstance] /\ ready[TheInstance]

(***************************************************************************)
(* C15                                                                     *)
(***************************************************************************)
\* the invocations that have issued import() of chart and await its result
ImportsInFlight ==
    {ek \in Elements \X (1..MaxAttach) :
        /\ ek[2] <= Len(pending[ek[1]])
        /\ pending[ek[1]][ek[2]] = [stage |-> "esm", i |-> 1]}

\* C15 (as stated): the specifier of chart is imported at most once per page:
\* while one invocation awaits its import no other invocation has issued an
\* import of it.
C15_ImportedAtMostOnce == Cardinality(ImportsInFlight) <= 1

(***************************************************************************)
(* C16                                                                     *)
(***************************************************************************)
\* the aliases declared by data-import: and data-script:
DeclaredAliases ==
    {imports[i] : i \in 1..Len(imports)} \cup {scripts[i] : i \in 1..Len(scripts)}

\* a mount of e computed signal values, attached content or ran setup in this step
MountActs(e) ==
    \/ content'[e] # content[e]
    \/ dataSignals'[e] # dataSignals[e]
    \/ setupRuns'[e] # setupRuns[e]
    \/ mountTrace'[e] # mountTrace[e]

\* the step ends an invocation of e whose _loadImports had returned
ResumesAfterLoading(e) ==
    \E k \in 1..Len(pending[e]) :
        /\ pending[e][k] = [stage |-> "ret", i |-> 0]
        /\ pending'[e] = RemoveAt(pending[e], k)

\* C16: a mount computes the initial signal values, attaches content and
\* runs setup only in an invocation whose dependency loading has finished,
\* when every declared alias (import and script) has an entry in the import
\* mapping of the instance.
C16_DependenciesSettleBeforeMount ==
    [][\A e \in Elements :
          MountActs(e) =>
              /\ ResumesAfterLoading(e)
              /\ \A a \in DeclaredAliases : a \in DOMAIN _imports[e]]_vars

\* the instance was mounted after its import had succeeded and its script
\* had failed: both aliases have an entry
C16_Witness ==
    /\ content[TheInstance] = 1
    /\ setupRuns[TheInstance] = 1
    /\ DOMAIN _imports[TheInstance] = DeclaredAliases
    /\ _imports[TheInstance][S_chart] = Module(S_chart)
    /\ _imports[TheInstance][S_plotly] = Undefined

(***************************************************************************)
(* C17                                                                     *)
(***************************************************************************)
\* the order of steps the claim gives, for an instance that attaches content
FreshMountOrder == <<"content", "publish", "setup", "rescan", "connected", "ready">>

\* the same for a hydrating instance, which attaches no content
HydratedMountOrder == <<"publish", "setup", "rescan", "connected", "ready">>

IsLifecycleStep(s) == s \notin {"beginBatch", "endBatch"}

\* the steps of a trace without the calls that open and close the batch
LifecycleSteps(q) == SelectSeq(q, IsLifecycleStep)

\* C17: every mount that took place carried out its steps in the order:
\* content attached (non-hydrating only), signals published, setup executed,
\* rescan dispatched, connected flag set, ready attribute set; and at its end
\* the effects of all of them are there.
C17_MountStepsInOrder ==
    \A e \in Elements :
        mountTrace[e] # <<>> =>
            /\ LifecycleSteps(mountTrace[e])
                    = IF _hydrating[e] THEN HydratedMountOrder ELSE FreshMountOrder
            /\ setupRuns[e] >= 1 /\ rescans[e] = setupRuns[e]
            /\ ready[e]
            /\ ~_hydrating[e] => content[e] = setupRuns[e]

\* a non-hydrating instance has completed its first mount with all six steps
C17_Witness ==
    /\ LifecycleSteps(mountTrace[TheInstance]) = FreshMountOrder
    /\ ~_hydrating[TheInstance]
    /\ _connected[TheInstance]
    /\ content[TheInstance] = 1

(***************************************************************************)
(* C18                                                                     *)
(***************************************************************************)
\* the typed default of the signal declaration of template t is malformed
\* (not a JSON literal)
MalformedDefault(t) ==
    /\ t.star
    /\ t.signals[1][2] \in { <<"j", "s", "o", "n", "|", "=", "{">>,
                              <<"j", "s", "o", "n", "|", "=">> }

\* C18 (as stated): once initStarElements has run, exactly the components
\* whose declaration is well-formed are defined: a malformed typed default
\* aborts the registration of its own component only, whatever comes before
\* or after it in the document.
C18_OnlyMalformedComponentIsSkipped ==
    initState # "loading" =>
        \A i \in 1..Len(templates) :
            templates[i].tag \in defined
                <=> (templates[i].star /\ ~MalformedDefault(templates[i]))

(***************************************************************************)
(* C19                                                                     *)
(***************************************************************************)
\* the invocation that ended in this step left no trace of a mount
NothingMounted(e) ==
    /\ content'[e] = content[e]
    /\ store' = store
    /\ dataSignals'[e] = dataSignals[e]
    /\ setupRuns'[e] = setupRuns[e]

\* C19 (as stated): when connectedCallback finishes for an element that is
\* attached, either nothing of the mount happened or the instance is
\* connected with the ready attribute set, also when a step of the mount
\* throws.
C19_NoHalfMountedInstance ==
    [][\A e \in Elements :
          ResumesAttached(e) => NothingMounted(e) \/ (_connected'[e] /\ ready'[e])]_vars

(***************************************************************************)
(* C20                                                                     *)
(***************************************************************************)
\* position i of text starts a component-local reference: $$ and the first
\* character of a name
LocalRefAt(text, i) ==
    /\ i >= 1 /\ i + 2 <= Len(text)
    /\ text[i] = "$" /\ text[i + 1] = "$"
    /\ IsLower(text[i + 2]) \/ IsUpper(text[i + 2]) \/ text[i + 2] = "_"

\* text with the $$ of every component-local reference replaced by $<ns>_ and
\* every other character kept, from position i on
RECURSIVE QualifiedFrom(_, _, _)
QualifiedFrom(ns, text, i) ==
    IF i > Len(text) THEN <<>>
    ELSE (IF LocalRefAt(text, i) THEN <<"$">> \o ns \o <<"_">>
          ELSE IF LocalRefAt(text, i - 1) THEN <<>>
          ELSE <<text[i]>>) \o QualifiedFrom(ns, text, i + 1)

\* C20: in the content attached to an instance every component-local
\* reference $$name of an attribute value reads $<namespace>_name and every
\* other character, the single-sigil references $name included, is as in the
\* template; a value without $$name references is unchanged; $c$$c becomes
\* $c$<namespace>_c.
C20_OnlyLocalReferencesRewritten ==
    \A e \in Elements :
        rewritten[e] # Null =>
            /\ rewritten[e] = Str(QualifiedFrom(_namespace[e], attrValue, 1))
            /\ (\A i \in 1..Len(attrValue) : ~LocalRefAt(attrValue, i))
                    => rewritten[e] = Str(attrValue)
            /\ attrValue = <<"$", "c", "$", "$", "c">>
                    => rewritten[e] = Str(<<"$", "c", "$">> \o _namespace[e] \o <<"_", "c">>)

\* the template value $c$$c has been attached to the first generated
\* instance as $c$_star_my_counter_id0_c
C20_Witness ==
    /\ attrValue = <<"$", "c", "$", "$", "c">>
    /\ content[TheInstance] = 1
    /\ rewritten[TheInstance] =
          Str(<<"$", "c", "$">> \o S_star_my_counter_id \o <<"0", "_", "c">>)

(***************************************************************************)
(* C21: the initial publish is batched.                                    *)
(***************************************************************************)
\* the positions of step x in the trace q
PositionsOf(x, q) == {i \in 1..Len(q) : q[i] = x}

\* in the trace q every x lies before every y
AllBefore(x, y, q) == \A i \in PositionsOf(x, q), j \in PositionsOf(y, q) : i < j

\* C21: the initial publish of a mount is issued inside one batch: beginBatch
\* precedes the first store write of the mount and endBatch follows the
\* dispatch of the rescan; every beginBatch is matched by exactly one endBatch
\* on every path through the mount, a throwing step included, so no batch is
\* open once the invocation has ended; and the declared signals are written
\* together, inside the batch, so nothing is flushed while only some of them
\* hold their new values.
C21_InitialPublishIsBatched ==
    /\ batchDepth = 0
    /\ \A e \in Elements :
        /\ ~unbatchedWrite[e]
        /\ dataSignals[e] # EmptyMap => DOMAIN dataSignals[e] = DeclaredKeys(_namespace[e])
        /\ mountTrace[e] # <<>> =>
            /\ Cardinality(PositionsOf("beginBatch", mountTrace[e])) = 1
            /\ Cardinality(PositionsOf("endBatch", mountTrace[e])) = 1
            /\ AllBefore("beginBatch", "publish", mountTrace[e])
            /\ AllBefore("beginBatch", "setup", mountTrace[e])
            /\ AllBefore("publish", "endBatch", mountTrace[e])
            /\ AllBefore("rescan", "endBatch", mountTrace[e])
            /\ AllBefore("beginBatch", "endBatch", mountTrace[e])

\* a mount whose publish threw has ended: the batch it began is closed
C21_Witness ==
    \E e \in Elements :
        /\ mountTrace[e] = <<"content", "beginBatch", "endBatch">>
        /\ batchDepth = 0
        /\ ~_connected[e]

(***************************************************************************)
(* C22: the static script.                                                 *)
(***************************************************************************)
\* registerStarElement is called for the i-th template and gets past the
\* extraction of the declarations: the template declares a component, no
\* declaration before it in the document is malformed, nor is one of its own
GetsRegistered(i) ==
    /\ templates[i].star
    /\ \A j \in 1..i : templates[j].star => ~MalformedDefault(templates[j])

\* C22: once initStarElements has run, the static script of every component
\* that got registered has executed exactly once, one that throws included,
\* and the component is defined all the same; no static script has executed
\* for a component that did not get registered, and none before
\* initStarElements; an instance exists only when its component is defined,
\* that is after the static script has executed.
C22_StaticScriptOncePerRegistration ==
    /\ initState = "loading" => staticRuns = EmptyMap /\ defined = {}
    /\ initState # "loading" =>
            \A i \in 1..Len(templates) :
                IF GetsRegistered(i)
                THEN /\ templates[i].tag \in defined
                     /\ RunsOf(staticRuns, templates[i].tag)
                            = IF templates[i].static = "none" THEN 0 ELSE 1
                ELSE RunsOf(staticRuns, templates[i].tag) = 0
    /\ \A e \in Elements :
            constructed[e] =>
                /\ name \in defined
                /\ \A i \in 1..Len(templates) :
                        templates[i].tag = name /\ templates[i].static # "none"
                            => RunsOf(staticRuns, name) = 1

\* the component my-counter has a static script that throws; the script has
\* run once, the component is defined and an instance of it is constructed
C22_Witness ==
    /\ templates[1].tag = name
    /\ templates[1].static = "throws"
    /\ RunsOf(staticRuns, name) = 1
    /\ name \in defined
    /\ constructed[TheInstance]

(***************************************************************************)
(* C23: loading after a detach.                                            *)
(***************************************************************************)
\* in this step an invocation of e goes on to a further dependency: it was
\* suspended on the import and is now suspended on the load of the script
\* element it has injected
StartsNextDependency(e) ==
    /\ Len(pending'[e]) = Len(pending[e])
    /\ \E k \in 1..Len(pending[e]) :
            /\ pending[e][k].stage = "esm"
            /\ pending'[e][k].stage = "umd"

\* C23 (as stated): an invocation whose element is detached when the load of
\* one dependency ends starts no further dependency: it injects no script
\* element.
C23_NoLoadingAfterDetach ==
    [][\A e \in Elements : ~attached[e] => ~StartsNextDependency(e)]_vars

(***************************************************************************)
(* C24: one mount per attachment.                                          *)
(***************************************************************************)
\* a mount sequence of e completes in this step: setup has run, the rescan
\* is dispatched and the instance is connected
MountSequenceCompletes(e) ==
    /\ MountCompletes(e)
    /\ rescans'[e] = rescans[e] + 1
    /\ Len(mountNs'[e]) = Len(mountNs[e]) + 1

\* C24 (as stated): for each attachment at most one mount sequence completes:
\* no mount completes on an instance that a mount of the same attachment has
\* already connected (disconnecting clears the connected flag).
C24_OneMountPerAttachment ==
    [][\A e \in Elements : MountSequenceCompletes(e) => ~_connected[e]]_vars

(***************************************************************************)
(* C25: namespace and hydrating flag are fixed at construction.            *)
(***************************************************************************)
\* the namespace and the hydrating flag of e are what the constructor derives
\* from the data-star-id attribute of e
AsConstructed(e) ==
    IF Truthy(attrs[e][S_data_star_id])
    THEN _hydrating[e] /\ _namespace[e] = attrs[e][S_data_star_id].v
    ELSE ~_hydrating[e] /\ _namespace[e] \in GeneratedNamespaces

\* C25: the namespace and the hydrating flag of an instance are set by the
\* constructor and no later step (connect, the mount with its setup script,
\* attribute change, disconnect) changes them.
C25_NamespaceAndHydratingFixed ==
    /\ [](\A e \in Elements : constructed[e] => AsConstructed(e))
    /\ [][\A e \in Elements :
              constructed[e] => /\ _namespace'[e] = _namespace[e]
                                /\ _hydrating'[e] = _hydrating[e]]_vars

\* a hydrated instance has been mounted twice, has seen an attribute change
\* and is disconnected: it still has the namespace and the flag of its
\* construction
C25_Witness ==
    /\ constructed[TheInstance]
    /\ _hydrating[TheInstance]
    /\ _namespace[TheInstance] = ServerId(TheInstance).v
    /\ setupRuns[TheInstance] = 2
    /\ attrs[TheInstance][S_count] # Null
    /\ ~attached[TheInstance]
    /\ phase[TheInstance] = "disconnected"

(***************************************************************************)
(* C26: the counter and the cache only grow.                               *)
(***************************************************************************)
\* the counter goes up by one with a construction without hydration id, stays
\* with a construction with one and with every other step
CounterCounts ==
    /\ instanceCounter' >= instanceCounter
    /\ \A e \in Elements :
            Constructs(e) =>
                instanceCounter' = instanceCounter
                    + (IF Truthy(attrs'[e][S_data_star_id]) THEN 0 ELSE 1)
    /\ (\A e \in Elements : ~Constructs(e)) => instanceCounter' = instanceCounter

\* a global that holds a resolved value keeps it
CacheKeeps ==
    \A a \in DOMAIN globalWindow :
        Truthy(globalWindow[a]) =>
            a \in DOMAIN globalWindow' /\ globalWindow'[a] = globalWindow[a]

\* C26: the namespace counter goes up by exactly one with each construction
\* without hydration id, by zero with each construction with one, and never
\* down; an alias that has a resolved value in the import cache is never
\* removed and never bound to another value, also while another instance
\* still awaits its own import of the alias.
C26_CounterAndCacheOnlyGrow == [][CounterCounts /\ CacheKeeps]_vars

\* one instance with and one without hydration id; chart is resolved in the
\* cache while an invocation still awaits its own import of chart
C26_Witness ==
    /\ instanceCounter = 1
    /\ \A e \in Elements : constructed[e]
    /\ \E e \in Elements : _hydrating[e]
    /\ Truthy(Lookup(globalWindow, S_chart))
    /\ ImportsInFlight # {}

(***************************************************************************)
(* C27: legacy scripts.                                                    *)
(***************************************************************************)
\* the names under which the library plotly may have defined its global
PlotlyGlobalNames ==
    { <<"p", "l", "o", "t", "l", "y">>,
      <<"P", "l", "o", "t", "l", "y">>,
      <<"P", "L", "O", "T", "L", "Y">> }

\* the globals of plotly that exist in win
PlotlyGlobals(win) ==
    {win[n] : n \in {m \in PlotlyGlobalNames \cap DOMAIN win : Truthy(win[m])}}

\* number of invocations in q that await the load of an injected script
AwaitingScript(q) == Cardinality({k \in 1..Len(q) : q[k].stage = "umd"})

\* an invocation of e injects the script element of plotly in this step: a new
\* invocation that gets as far as the script, or one that comes from its import
InjectsScript(e) == AwaitingScript(pending'[e]) > AwaitingScript(pending[e])

\* an invocation of e finishes _loadImports in this step
FinishesLoading(e) ==
    \/ /\ Len(pending'[e]) = Len(pending[e]) + 1
       /\ pending'[e][Len(pending'[e])].stage = "ret"
    \/ /\ Len(pending'[e]) = Len(pending[e])
       /\ \E k \in 1..Len(pending[e]) :
               pending[e][k].stage # "ret" /\ pending'[e][k].stage = "ret"

\* the alias plotly of e is bound to a global of plotly that exists, or to
\* undefined when there is none
BoundToGlobalFound(e) ==
    /\ S_plotly \in DOMAIN _imports'[e]
    /\ IF PlotlyGlobals(globalWindow') = {}
       THEN _imports'[e][S_plotly] = Undefined
       ELSE _imports'[e][S_plotly] \in PlotlyGlobals(globalWindow')

\* C27: the script element of a legacy script is injected only when no global
\* exists under the alias, the capitalized alias or the alias in capitals; an
\* invocation that awaits the load or error event of the script does not end
\* (no mount takes place) before the event; and when _loadImports finishes the
\* alias is bound to the global found under one of the three names, or to
\* undefined.
C27_LegacyScriptLoading ==
    [][\A e \in Elements :
          /\ InjectsScript(e) => PlotlyGlobals(globalWindow') = {}
          /\ Len(pending'[e]) < Len(pending[e])
                => AwaitingScript(pending'[e]) = AwaitingScript(pending[e])
          /\ AwaitingScript(pending'[e]) < AwaitingScript(pending[e]) => FinishesLoading(e)
          /\ FinishesLoading(e) => BoundToGlobalFound(e)]_vars

\* a script has defined the global in capitals: the alias of a mounted
\* instance is bound to it
C27_Witness ==
    \E e \in Elements :
        /\ Lookup(_imports[e], S_plotly) = Module(<<"P", "L", "O", "T", "L", "Y">>)
        /\ setupRuns[e] = 1
        /\ pending[e] = <<>>

(***************************************************************************)
(* C28: the codec grammar.                                                 *)
(***************************************************************************)
\* the positions of the type names among the tokens
TypePositions(toks) == {i \in 1..Len(toks) : toks[i] \in TypeNames}

\* the positions of the tokens that start with =
DefaultPositions(toks) == {i \in 1..Len(toks) : toks[i] # <<>> /\ toks[i][1] = "="}

Last(S) == CHOOSE i \in S : \A j \in S : j <= i

\* the selected type: the last type name, string when there is none
SelectedType(toks) ==
    IF TypePositions(toks) = {} THEN S_string ELSE toks[Last(TypePositions(toks))]

\* the default: null without a = token, otherwise the text after the = of the
\* last = token as parsed by the selected type
SelectedDefault(toks) ==
    IF DefaultPositions(toks) = {} THEN Null
    ELSE PARSERS(SelectedType(toks), Tail1(toks[Last(DefaultPositions(toks))]))

\* C28 (as stated): for every codec string the registered codec has the type
\* of the last type name among the tokens (string when there is none) and the
\* default null or the last = token parsed by that type; every other token
\* is ignored.  (A default that the type's parser rejects aborts the
\* registration.)
C28_CodecGrammar ==
    initState # "loading" =>
        LET tag == templates[1].tag
            toks == Split(templates[1].signals[1][2], "|")
        IN  IF SelectedDefault(toks) = Thrown
            THEN tag \notin defined
            ELSE /\ tag \in defined
                 /\ signalCodecs[tag][1][2]
                        = [type |-> SelectedType(toks), default |-> SelectedDefault(toks)]

(***************************************************************************)
(* C29: the signal proxy of the setup script.                              *)
(***************************************************************************)
HasSigils(prop) == Len(prop) >= 2 /\ prop[1] = "$" /\ prop[2] = "$"

\* <namespace>_name for the property $$name
QualifiedName(ns, prop) == ns \o <<"_">> \o SubSeq(prop, 3, Len(prop))

\* the calls of log, made on the store s and the proxy's own properties own,
\* are as described: a read of $$name returned the store value at
\* <namespace>_name, a read of another name the proxy's own property; a write
\* of $$name set exactly that key of the store, a write of another name the
\* proxy's own property.  The result is the store after the calls, and ok.
RECURSIVE ProxyCalls(_, _, _, _)
ProxyCalls(log, s, own, ns) ==
    IF log = <<>> THEN [ok |-> TRUE, store |-> s]
    ELSE IF log[1].op = "get"
         THEN IF log[1].val =
                    (IF HasSigils(log[1].prop)
                     THEN (IF QualifiedName(ns, log[1].prop) \in DOMAIN s
                           THEN s[QualifiedName(ns, log[1].prop)] ELSE Undefined)
                     ELSE (IF log[1].prop \in DOMAIN own THEN own[log[1].prop] ELSE Undefined))
              THEN ProxyCalls(Tail1(log), s, own, ns)
              ELSE [ok |-> FALSE, store |-> s]
    ELSE IF HasSigils(log[1].prop)
         THEN ProxyCalls(Tail1(log),
                         [k \in DOMAIN s \cup {QualifiedName(ns, log[1].prop)} |->
                             IF k = QualifiedName(ns, log[1].prop) THEN log[1].val ELSE s[k]],
                         own, ns)
         ELSE ProxyCalls(Tail1(log), s,
                         [k \in DOMAIN own \cup {log[1].prop} |->
                             IF k = log[1].prop THEN log[1].val ELSE own[k]],
                         ns)

\* the store right after the initial publish of the mount that ends in this
\* step (a signal published as null is absent)
StoreAsPublished(e) ==
    [k \in (DOMAIN store \cup DOMAIN dataSignals'[e])
                \ {n \in DOMAIN dataSignals'[e] : dataSignals'[e][n] = Null} |->
        IF k \in DOMAIN dataSignals'[e] THEN dataSignals'[e][k] ELSE store[k]]

\* C29: inside the setup script a read of $$name through the proxy returns
\* the store value at <namespace>_name and a write of $$name patches exactly
\* that key and no other; a name without the sigils neither reads nor patches
\* the store.
C29_ProxyReadsAndWritesOwnKeys ==
    [][\A e \in Elements :
          MountCompletes(e) =>
              \E r \in {ProxyCalls(proxyLog'[e], StoreAsPublished(e), EmptyMap, _namespace[e])} :
                  r.ok /\ store' = r.store]_vars

\* the script has assigned 7 to $$x and read it back: the store holds 7 at
\* <namespace>_x
C29_Witness ==
    /\ proxyLog[TheInstance]
            = << [op |-> "set", prop |-> S_sigils \o S_x, val |-> Num(7)],
                 [op |-> "get", prop |-> S_sigils \o S_x, val |-> Num(7)] >>
    /\ _namespace[TheInstance] \o <<"_", "x">> \in DOMAIN store
    /\ store[_namespace[TheInstance] \o <<"_", "x">>] = Num(7)

(***************************************************************************)
(* C30: effects are tracked.                                               *)
(***************************************************************************)
\* the dispose function of effect id is in the cleanup list of e
DisposeListed(e, id) ==
    \E i \in 1..Len(_cleanups[e]) :
        _cleanups[e][i].kind = "effect" /\ _cleanups[e][i].id = id

\* e is disconnected in this step
Disconnects(e) == attached[e] /\ ~attached'[e]

\* C30: every effect that the setup script creates, through the effect
\* argument or through datastar.effect, has its dispose function in the
\* cleanup list from its creation on, and after the next disconnect no
\* effect created by the setup of the instance is still active.
C30_EffectsAreTracked ==
    /\ [](\A e \in Elements : \A id \in effects[e] : DisposeListed(e, id))
    /\ [][\A e \in Elements : Disconnects(e) => effects'[e] = {}]_vars

\* two executions of the setup script have registered four cleanup actions,
\* among them a dispose function behind a cleanup action that throws; the
\* instance has been disconnected, all four have run and no effect is active
C30_Witness ==
    /\ registered[TheInstance] = 4
    /\ Len(ran[TheInstance]) = 4
    /\ \E i, j \in 1..4 :
            /\ i < j
            /\ ran[TheInstance][i].throws
            /\ ran[TheInstance][j].kind = "effect"
    /\ effects[TheInstance] = {}
    /\ ~attached[TheInstance]

(***************************************************************************)
(* C31: the mount ends when the loads settle, and not before.              *)
(***************************************************************************)
\* no invocation of e has finished loading
AllLoading(e) == \A k \in 1..Len(pending[e]) : pending[e][k].stage # "ret"

\* C31: an element that is attached and whose dependency loads all settle,
\* successfully or not, is eventually connected with the ready attribute set,
\* unless it is detached before; as long as no load of an attached, connecting
\* element has settled to the end of _loadImports the instance stays
\* connecting (there is no timeout), and an instance becomes connected only
\* when an invocation whose loading has finished is resumed.
C31_MountsOnceLoadsSettle ==
    /\ attached[TheInstance]
            ~> (~attached[TheInstance] \/ (_connected[TheInstance] /\ ready[TheInstance]))
    /\ [][\A e \in Elements :
              /\ (attached[e] /\ attached'[e] /\ phase[e] = "connecting" /\ AllLoading(e)
                        /\ pending'[e] = pending[e])
                    => phase'[e] = "connecting" /\ ~_connected'[e]
              /\ (~_connected[e] /\ _connected'[e])
                    => ~AllLoading(e) /\ Len(pending'[e]) < Len(pending[e])]_vars

\* the import failed and the script fired error; the instance is connected
\* and ready all the same
C31_Witness ==
    /\ attached[TheInstance]
    /\ _connected[TheInstance] /\ ready[TheInstance]
    /\ S_chart \in DOMAIN _imports[TheInstance]
    /\ ~Truthy(_imports[TheInstance][S_chart])
    /\ ~Truthy(Lookup(_imports[TheInstance], S_plotly))
    /\ attachCount[TheInstance] = 1

\* C32: after any sequence of connect and disconnect callbacks, an element
\* that is not hydrating holds at most one copy of the template content (the
\* content of an earlier mount does not stay next to that of a later one)
C32_AtMostOneCopy ==
    \A e \in Elements : ~_hydrating[e] => content[e] <= 1

\* the keys removed by the disconnect of e: <namespace of e>_<declared signal>
OwnKeys(e) == DeclaredKeys(_namespace[e])

\* key k holds the same value (or is absent) before and after the step
KeyUnchanged(k) == getPath(store', k) = getPath(store, k)

\* the keys of the store before or after the step
KeysInStep == DOMAIN store \cup DOMAIN store'

InvocationEnds(e) == Len(pending'[e]) < Len(pending[e])

\* the trace q holds every step a mount takes up to the ready attribute, each
\* of them before the ready attribute is set
RanToItsEnd(q) ==
    \A x \in {"publish", "setup", "rescan", "connected"} :
        InSeq(x, q) /\ AllBefore(x, "ready", q)

\* C34: the ready attribute is present only on an element one of whose mount
\* sequences ran to its end (initial signals published, setup executed or
\* attempted, rescan dispatched) with the connected flag set to true; an
\* invocation that is aborted because the element was detached while the
\* dependencies were loading does not set it
C34_ReadyOnlyAfterCompleteMount ==
    /\ [](\A e \in Elements :
             ready[e] => /\ Len(mountNs[e]) >= 1
                         /\ setupRuns[e] >= 1 /\ rescans[e] >= 1
                         /\ RanToItsEnd(mountTrace[e]))
    /\ [][\A e \in Elements :
             /\ ready'[e] # ready[e] => InvocationEnds(e) /\ ready'[e]
             /\ (InvocationEnds(e) /\ aborted'[e] # aborted[e]) =>
                    /\ ~attached[e]
                    /\ ready'[e] = ready[e]
             /\ (InvocationEnds(e) /\ aborted'[e] = aborted[e] /\ InSeq("ready", mountTrace'[e])) =>
                    /\ attached[e]
                    /\ MountSequenceCompletes(e)
                    /\ DOMAIN dataSignals'[e] = OwnKeys(e)
                    /\ RanToItsEnd(mountTrace'[e])
                    /\ _connected'[e] /\ ready'[e]]_vars

\* the invocation of the first attachment was aborted and left the element
\* without the attribute; the mount of the second attachment has set it
C34_Witness ==
    /\ ready[TheInstance] /\ _connected[TheInstance] /\ attached[TheInstance]
    /\ aborted[TheInstance] = 1
    /\ Len(mountNs[TheInstance]) = 1
    /\ attachCount[TheInstance] = 2

====
